---- MODULE Spec2Model ----
(***************************************************************************)
(* Power-balance simulation of a spacecraft on asteroid 16 Psyche.         *)
(*                                                                         *)
(* The engine works on IEEE doubles; the model works on fixed-point        *)
(* integers.  Units:                                                       *)
(*   dimensionless factors (cosine, efficiencies, rates)  1/Scale          *)
(*   temperature coefficient                               1/Scale per K   *)
(*   angles                                                1/Scale rad     *)
(*   temperatures                                          1/Scale K       *)
(*   areas                                                 1/AreaScale m2  *)
(*   powers                                                mW              *)
(*   energies                                              mW * 0.1 h      *)
(*   state of charge                                       1/SocScale      *)
(*   simulated time                                        0.1 h (a step)  *)
(*   durationHours                                         0.01 h          *)
(* Every product or quotient is truncated to its unit right where the      *)
(* engine rounds it, in the order the engine evaluates it.                 *)
(***************************************************************************)
EXTENDS Integers, Sequences, FiniteSets, TLC

(***************************************************************************)
(* Units and bounds                                                        *)
(***************************************************************************)
Scale == 10000

AreaScale == 10

SocScale == 1000000

MilliWatt == 1000

\* largest yearsInOperation drawn for a configuration
MaxYears == 2

\* largest number of calls of runSimulation in one behaviour of SpecRuns
MaxRuns == 3

\* largest number of preset selections and field changes in one behaviour of
\* SpecUI
MaxChanges == 1

(***************************************************************************)
(* IEEE values that are not numbers of the fixed-point range               *)
(***************************************************************************)
PosInf == 2000000000

NegInf == -2000000000

NaN == -2000000001

Undefined == -2000000002

IsNumber(x) == x # NaN /\ x # Undefined

IsFinite(x) == IsNumber(x) /\ x # PosInf /\ x # NegInf

\* a > b on doubles: false as soon as one side is NaN or undefined
Gt(a, b) == IsNumber(a) /\ IsNumber(b) /\ a > b

Abs(x) == IF x < 0 THEN -x ELSE x

Sgn(x) == IF x < 0 THEN -1 ELSE 1

\* a * b / c on non-negative integers, truncated, without leaving 32 bits
MulDivNat(a, b, c) == (a \div c) * b + ((a % c) * b) \div c

\* a * b / c truncated toward zero, c # 0, a finite
MulDiv(a, b, c) == Sgn(a) * Sgn(b) * Sgn(c) * MulDivNat(Abs(a), Abs(b), Abs(c))

\* a + b on doubles
FAdd(a, b) ==
  IF ~IsNumber(a) \/ ~IsNumber(b) THEN NaN
  ELSE IF a = PosInf THEN (IF b = NegInf THEN NaN ELSE PosInf)
  ELSE IF a = NegInf THEN (IF b = PosInf THEN NaN ELSE NegInf)
  ELSE IF ~IsFinite(b) THEN b
  ELSE a + b

\* Math.min and Math.max of two doubles
MathMin(a, b) == IF ~IsNumber(a) \/ ~IsNumber(b) THEN NaN ELSE IF a < b THEN a ELSE b

MathMax(a, b) == IF ~IsNumber(a) \/ ~IsNumber(b) THEN NaN ELSE IF a > b THEN a ELSE b

(***************************************************************************)
(* Technology catalogs (src/data/technologies.ts)                          *)
(***************************************************************************)
NULL == [name |-> "null"]

concentrators ==
  << [name |-> "Parabolic Dish Concentrator", concentration_ratio |-> 20, efficiency |-> 8200],
     [name |-> "Linear Fresnel Reflector", concentration_ratio |-> 15, efficiency |-> 8500],
     [name |-> "Compound Parabolic Concentrator (CPC)", concentration_ratio |-> 10, efficiency |-> 8800],
     [name |-> "Parabolic Trough", concentration_ratio |-> 5, efficiency |-> 7500],
     [name |-> "Inflatable Fresnel Lens", concentration_ratio |-> 25, efficiency |-> 7800],
     [name |-> "Holographic Concentrator", concentration_ratio |-> 30, efficiency |-> 7500],
     [name |-> "Micro-Concentrator Array", concentration_ratio |-> 12, efficiency |-> 8000],
     [name |-> "Reflective Film Concentrator", concentration_ratio |-> 8, efficiency |-> 8300],
     [name |-> "Advanced Fresnel System", concentration_ratio |-> 18, efficiency |-> 8700] >>

pvCells ==
  << [name |-> "Silicon (Si)", efficiency |-> 1500, temp_coefficient |-> -50, degradation_rate |-> 150],
     [name |-> "Gallium Arsenide (GaAs)", efficiency |-> 2800, temp_coefficient |-> -40, degradation_rate |-> 80],
     [name |-> "Triple-junction GaAs (3J)", efficiency |-> 3200, temp_coefficient |-> -40, degradation_rate |-> 50],
     [name |-> "Quad-junction IMM", efficiency |-> 3400, temp_coefficient |-> -30, degradation_rate |-> 30],
     [name |-> "Perovskite", efficiency |-> 2500, temp_coefficient |-> -30, degradation_rate |-> 120],
     [name |-> "Quantum Dot Cells", efficiency |-> 4500, temp_coefficient |-> -20, degradation_rate |-> 40],
     [name |-> "CIGS (Copper Indium Gallium Selenide)", efficiency |-> 2200, temp_coefficient |-> -40, degradation_rate |-> 100],
     [name |-> "Organic Photovoltaics", efficiency |-> 1800, temp_coefficient |-> -30, degradation_rate |-> 200],
     [name |-> "Tandem Silicon/Perovskite", efficiency |-> 3000, temp_coefficient |-> -30, degradation_rate |-> 80],
     [name |-> "Advanced Multi-junction (5J+)", efficiency |-> 3800, temp_coefficient |-> -20, degradation_rate |-> 30],
     [name |-> "Concentrator PV (CPV) Cells", efficiency |-> 4000, temp_coefficient |-> -30, degradation_rate |-> 40] >>

batteries ==
  << [name |-> "Nickel-Cadmium (NiCd)", charge_efficiency |-> 9000, discharge_efficiency |-> 9500],
     [name |-> "Nickel-Hydrogen (NiH2)", charge_efficiency |-> 9000, discharge_efficiency |-> 9500],
     [name |-> "Lithium-ion (NMC)", charge_efficiency |-> 9600, discharge_efficiency |-> 9700],
     [name |-> "Lithium-ion (NCA)", charge_efficiency |-> 9500, discharge_efficiency |-> 9700],
     [name |-> "Lithium-ion (LFP)", charge_efficiency |-> 9800, discharge_efficiency |-> 9900],
     [name |-> "Lithium-Sulfur", charge_efficiency |-> 9300, discharge_efficiency |-> 9500],
     [name |-> "Solid-State Lithium", charge_efficiency |-> 9800, discharge_efficiency |-> 9900],
     [name |-> "Lithium-Air", charge_efficiency |-> 8500, discharge_efficiency |-> 9000],
     [name |-> "Sodium-ion", charge_efficiency |-> 9400, discharge_efficiency |-> 9600],
     [name |-> "Aluminum-ion", charge_efficiency |-> 9200, discharge_efficiency |-> 9400],
     [name |-> "Flow Battery (Vanadium)", charge_efficiency |-> 8500, discharge_efficiency |-> 9000],
     [name |-> "Zinc-Bromine Flow", charge_efficiency |-> 8800, discharge_efficiency |-> 9200] >>

\* records of technologies that are in no catalog: runSimulation takes any record
HotCell == [name |-> "Hot cell", efficiency |-> 3000, temp_coefficient |-> 60, degradation_rate |-> 100]

RunawayCell == [name |-> "Runaway cell", efficiency |-> 3000, temp_coefficient |-> 500, degradation_rate |-> 0]

\* a concentrator that passes on all the light it collects
PerfectConcentrator == [name |-> "Perfect concentrator", concentration_ratio |-> 1, efficiency |-> 10000]

IdealBattery == [name |-> "Ideal battery", charge_efficiency |-> 10000, discharge_efficiency |-> 10000]

(***************************************************************************)
(* Environment model                                                       *)
(***************************************************************************)
SOLAR_CONSTANT_EARTH == 1361

\* 2.9 AU, in tenths of an AU
DISTANCE_AU == 29

\* 4.2 h, in steps of 0.1 h
ROTATION_PERIOD == 42

TEMP_MIN == 100

TEMP_MAX == 270

TEMP_REF == 298

\* 2 * Math.PI in 1/Scale rad
TwoPi == 62832

\* Math.cos at the angles of the 42 steps of a rotation, in 1/Scale
CosTable ==
  << 10000, 9888, 9556, 9010, 8262, 7331, 6235, 5000, 3653, 2225, 747,
     -747, -2225, -3653, -5000, -6235, -7331, -8262, -9010, -9556, -9888,
     -10000, -9888, -9556, -9010, -8262, -7331, -6235, -5000, -3653, -2225, -747,
     747, 2225, 3653, 5000, 6235, 7331, 8262, 9010, 9556, 9888 >>

\* the table entry of the step of the rotation nearest to the angle
MathCos(angle) == CosTable[(((angle * ROTATION_PERIOD + TwoPi \div 2) \div TwoPi) % ROTATION_PERIOD) + 1]

\* W/m2 at 2.9 AU, in mW/m2
getSolarIrradiance == (SOLAR_CONSTANT_EARTH * MilliWatt * 100) \div (DISTANCE_AU * DISTANCE_AU)

\* The times below 100 h, whole numbers of rotations, at which the IEEE
\* product timeHours * rotationsPerHour * 2 * Math.PI falls one rounding
\* below a multiple of 2 * Math.PI, so that the remainder is
\* 6.283185307179579 instead of 0 (46.2 h is the first).
RoundsBelowTwoPi == {462, 630, 798, 924, 966}

\* the largest angle below 2 * Math.PI, in 1/Scale rad
BelowTwoPi == TwoPi - 1

\* a body that takes two rotation periods for a turn
getSunAngle_HalfSpeed(timeHours) == ((timeHours * TwoPi) \div (2 * ROTATION_PERIOD)) % TwoPi

getSunAngle_NoRemainder(timeHours) == (timeHours * TwoPi) \div ROTATION_PERIOD

getSunAngle(timeHours) == IF timeHours \in RoundsBelowTwoPi THEN BelowTwoPi ELSE ((timeHours * TwoPi) \div ROTATION_PERIOD) % TwoPi

\* a temperature that follows the cosine below the terminator
getSurfaceTemperature_Signed(sunAngle) ==
  LET tempRange == TEMP_MAX - TEMP_MIN
  IN  TEMP_MIN * Scale + tempRange * MathCos(sunAngle)

getSurfaceTemperature(sunAngle) ==
  LET tempRange == TEMP_MAX - TEMP_MIN
  IN  TEMP_MIN * Scale + tempRange * MathMax(0, MathCos(sunAngle))

(***************************************************************************)
(* Generation model                                                        *)
(***************************************************************************)
calculateConcentratorPower(timeHours, concentratorArea, concentratorEfficiency) ==
  LET irradiance == getSolarIrradiance
      sunAngle   == getSunAngle(timeHours)
      cosineLoss == MathMax(0, MathCos(sunAngle))
  IN  MulDiv(MulDiv(MulDiv(irradiance, concentratorArea, AreaScale),
                    concentratorEfficiency, Scale),
             cosineLoss, Scale)

\* calculatePVPower without the floor Math.max(0.1, .) of the derating
calculatePVPower_NoFloor(concentratedPower, concentrationRatio, pvArea, pvEfficiency, tempCoefficient, surfaceTemp) ==
  LET tempDelta            == surfaceTemp - TEMP_REF * Scale
      efficiencyAdjustment == Scale + MulDiv(tempCoefficient, tempDelta, Scale)
      actualEfficiency     == MulDiv(pvEfficiency, efficiencyAdjustment, Scale)
  IN  MulDiv(concentratedPower, actualEfficiency, Scale)

\* calculatePVPower with the derating taken from 273 K instead of TEMP_REF
calculatePVPower_DeratingFromFreezing(concentratedPower, concentrationRatio, pvArea, pvEfficiency, tempCoefficient, surfaceTemp) ==
  LET tempDelta            == surfaceTemp - 273 * Scale
      efficiencyAdjustment == Scale + MulDiv(tempCoefficient, tempDelta, Scale)
      actualEfficiency     == MulDiv(pvEfficiency, MathMax(Scale \div 10, efficiencyAdjustment), Scale)
  IN  MulDiv(concentratedPower, actualEfficiency, Scale)

calculatePVPower(concentratedPower, concentrationRatio, pvArea, pvEfficiency, tempCoefficient, surfaceTemp) ==
  LET tempDelta            == surfaceTemp - TEMP_REF * Scale
      efficiencyAdjustment == Scale + MulDiv(tempCoefficient, tempDelta, Scale)
      actualEfficiency     == MulDiv(pvEfficiency, MathMax(Scale \div 10, efficiencyAdjustment), Scale)
  IN  MulDiv(concentratedPower, actualEfficiency, Scale)

\* direct PV without the cosine of the sun angle
directPVPower_NoCosine(timeHours, pvArea, pvEfficiency, tempCoefficient, surfaceTemp) ==
  LET incidentPower        == MulDiv(getSolarIrradiance, pvArea, AreaScale)
      tempDelta            == surfaceTemp - TEMP_REF * Scale
      efficiencyAdjustment == Scale + MulDiv(tempCoefficient, tempDelta, Scale)
      actualEfficiency     == MulDiv(pvEfficiency, MathMax(Scale \div 10, efficiencyAdjustment), Scale)
  IN  MulDiv(incidentPower, actualEfficiency, Scale)

\* the else branch of runSimulation: direct PV without concentrator
directPVPower(timeHours, pvArea, pvEfficiency, tempCoefficient, surfaceTemp) ==
  LET irradiance           == getSolarIrradiance
      sunAngleCalc         == getSunAngle(timeHours)
      cosineLoss           == MathMax(0, MathCos(sunAngleCalc))
      incidentPower        == MulDiv(MulDiv(irradiance, pvArea, AreaScale), cosineLoss, Scale)
      tempDelta            == surfaceTemp - TEMP_REF * Scale
      efficiencyAdjustment == Scale + MulDiv(tempCoefficient, tempDelta, Scale)
      actualEfficiency     == MulDiv(pvEfficiency, MathMax(Scale \div 10, efficiencyAdjustment), Scale)
  IN  MulDiv(incidentPower, actualEfficiency, Scale)

(***************************************************************************)
(* Load model                                                              *)
(***************************************************************************)
\* calculatePowerConsumption with the communication window closed at 0.5 h
calculatePowerConsumption_InclusiveComm(timeHours, baseLoad) ==
  LET sunAngle  == getSunAngle(timeHours)
      isDay     == MathCos(sunAngle) > 0
      load0     == baseLoad * MilliWatt
      load1     == IF isDay THEN load0 + MulDiv(baseLoad * MilliWatt, 15000, Scale) ELSE load0
      commCycle == timeHours % 60
      load2     == IF commCycle <= 5 THEN load1 + MulDiv(baseLoad * MilliWatt, 8000, Scale) ELSE load1
      load3     == IF ~isDay THEN load2 + MulDiv(baseLoad * MilliWatt, 10000, Scale) ELSE load2
  IN  load3

\* a load model that takes the first half of every rotation for the day
calculatePowerConsumption_HalfRotationDay(timeHours, baseLoad) ==
  LET isDay     == timeHours % ROTATION_PERIOD < ROTATION_PERIOD \div 2
      load0     == baseLoad * MilliWatt
      load1     == IF isDay THEN load0 + MulDiv(baseLoad * MilliWatt, 15000, Scale) ELSE load0
      commCycle == timeHours % 60
      load2     == IF commCycle < 5 THEN load1 + MulDiv(baseLoad * MilliWatt, 8000, Scale) ELSE load1
      load3     == IF ~isDay THEN load2 + MulDiv(baseLoad * MilliWatt, 10000, Scale) ELSE load2
  IN  load3

calculatePowerConsumption(timeHours, baseLoad) ==
  LET sunAngle  == getSunAngle(timeHours)
      isDay     == MathCos(sunAngle) > 0
      load0     == baseLoad * MilliWatt
      load1     == IF isDay THEN load0 + MulDiv(baseLoad * MilliWatt, 15000, Scale) ELSE load0
      commCycle == timeHours % 60
      load2     == IF commCycle < 5 THEN load1 + MulDiv(baseLoad * MilliWatt, 8000, Scale) ELSE load1
      load3     == IF ~isDay THEN load2 + MulDiv(baseLoad * MilliWatt, 10000, Scale) ELSE load2
  IN  load3

(***************************************************************************)
(* Battery integrator                                                      *)
(***************************************************************************)
\* energyChange / batteryCapacity on doubles, in 1/SocScale
socChangeOf(energyChange, batteryCapacity) ==
  IF batteryCapacity = 0
  THEN IF energyChange > 0 THEN PosInf ELSE IF energyChange < 0 THEN NegInf ELSE NaN
  ELSE MulDiv(energyChange, SocScale \div Scale, batteryCapacity)

\* updateBatterySOC without the upper clamp Math.min(0.95, .)
updateBatterySOC_NoCeiling(currentSOC, powerNet, batteryCapacity, chargeEfficiency, dischargeEfficiency, timeStep) ==
  LET energyChange0 == powerNet * timeStep
      energyChange  == IF energyChange0 > 0
                       THEN MulDiv(energyChange0, chargeEfficiency, Scale)
                       ELSE MulDiv(energyChange0, Scale, dischargeEfficiency)
      socChange     == socChangeOf(energyChange, batteryCapacity)
      newSOC        == FAdd(currentSOC, socChange)
  IN  MathMax(15 * (SocScale \div 100), newSOC)

\* updateBatterySOC without the lower clamp Math.max(0.15, .)
updateBatterySOC_NoFloor(currentSOC, powerNet, batteryCapacity, chargeEfficiency, dischargeEfficiency, timeStep) ==
  LET energyChange0 == powerNet * timeStep
      energyChange  == IF energyChange0 > 0
                       THEN MulDiv(energyChange0, chargeEfficiency, Scale)
                       ELSE MulDiv(energyChange0, Scale, dischargeEfficiency)
      socChange     == socChangeOf(energyChange, batteryCapacity)
      newSOC        == FAdd(currentSOC, socChange)
  IN  MathMin(95 * (SocScale \div 100), newSOC)

\* updateBatterySOC multiplying by the discharge efficiency instead of dividing
updateBatterySOC_DischargeTimes(currentSOC, powerNet, batteryCapacity, chargeEfficiency, dischargeEfficiency, timeStep) ==
  LET energyChange0 == powerNet * timeStep
      energyChange  == IF energyChange0 > 0
                       THEN MulDiv(energyChange0, chargeEfficiency, Scale)
                       ELSE MulDiv(energyChange0, dischargeEfficiency, Scale)
      socChange     == socChangeOf(energyChange, batteryCapacity)
      newSOC        == FAdd(currentSOC, socChange)
  IN  MathMax(15 * (SocScale \div 100), MathMin(95 * (SocScale \div 100), newSOC))

\* updateBatterySOC with a self-discharge of 0.001 at every step
updateBatterySOC_SelfDischarge(currentSOC, powerNet, batteryCapacity, chargeEfficiency, dischargeEfficiency, timeStep) ==
  LET energyChange0 == powerNet * timeStep
      energyChange  == IF energyChange0 > 0
                       THEN MulDiv(energyChange0, chargeEfficiency, Scale)
                       ELSE MulDiv(energyChange0, Scale, dischargeEfficiency)
      socChange     == socChangeOf(energyChange, batteryCapacity)
      newSOC        == FAdd(FAdd(currentSOC, socChange), -(SocScale \div 1000))
  IN  MathMax(15 * (SocScale \div 100), MathMin(95 * (SocScale \div 100), newSOC))

updateBatterySOC(currentSOC, powerNet, batteryCapacity, chargeEfficiency, dischargeEfficiency, timeStep) ==
  LET energyChange0 == powerNet * timeStep
      energyChange  == IF energyChange0 > 0
                       THEN MulDiv(energyChange0, chargeEfficiency, Scale)
                       ELSE MulDiv(energyChange0, Scale, dischargeEfficiency)
      socChange     == socChangeOf(energyChange, batteryCapacity)
      newSOC        == FAdd(currentSOC, socChange)
  IN  MathMax(15 * (SocScale \div 100), MathMin(95 * (SocScale \div 100), newSOC))

(***************************************************************************)
(* Presets (src/data/presets.ts) and the configurations built from them    *)
(***************************************************************************)
\* a preset without concentrator carries null in place of a name
NullName == "null"

presets ==
  << [id |-> "baseline", concentrator |-> "Linear Fresnel Reflector",
      pvCell |-> "Triple-junction GaAs (3J)", battery |-> "Lithium-ion (NMC)",
      parameters |-> [concentratorArea |-> 30, pvArea |-> 10, batteryCapacity |-> 8000,
                      baseLoad |-> 100, duration |-> 4800, years |-> 0]],
     [id |-> "high-power", concentrator |-> "Parabolic Dish Concentrator",
      pvCell |-> "Quad-junction IMM", battery |-> "Lithium-ion (NCA)",
      parameters |-> [concentratorArea |-> 50, pvArea |-> 15, batteryCapacity |-> 15000,
                      baseLoad |-> 200, duration |-> 4800, years |-> 0]],
     [id |-> "minimal-mass", concentrator |-> "Inflatable Fresnel Lens",
      pvCell |-> "Triple-junction GaAs (3J)", battery |-> "Lithium-Sulfur",
      parameters |-> [concentratorArea |-> 20, pvArea |-> 5, batteryCapacity |-> 5000,
                      baseLoad |-> 75, duration |-> 4800, years |-> 0]],
     [id |-> "extended-life", concentrator |-> "Compound Parabolic Concentrator (CPC)",
      pvCell |-> "Quad-junction IMM", battery |-> "Nickel-Hydrogen (NiH2)",
      parameters |-> [concentratorArea |-> 40, pvArea |-> 12, batteryCapacity |-> 12000,
                      baseLoad |-> 120, duration |-> 4800, years |-> 0]],
     [id |-> "no-concentrator", concentrator |-> NullName,
      pvCell |-> "Quad-junction IMM", battery |-> "Lithium-ion (NMC)",
      parameters |-> [concentratorArea |-> 0, pvArea |-> 80, batteryCapacity |-> 10000,
                      baseLoad |-> 100, duration |-> 4800, years |-> 0]] >>

\* Array.prototype.find by exact name; NULL when no record matches
\* a lookup that skips the first record of the table
Find_FromSecond(catalog, name) ==
  IF \E i \in 2..Len(catalog) : catalog[i].name = name
  THEN catalog[CHOOSE i \in 2..Len(catalog) :
                 /\ catalog[i].name = name
                 /\ \A j \in 2..(i - 1) : catalog[j].name # name]
  ELSE NULL

Find(catalog, name) ==
  IF \E i \in 1..Len(catalog) : catalog[i].name = name
  THEN catalog[CHOOSE i \in 1..Len(catalog) :
                 /\ catalog[i].name = name
                 /\ \A j \in 1..(i - 1) : catalog[j].name # name]
  ELSE NULL

\* the configuration handleRunSimulation passes after handlePresetSelect(p)
PresetConfig(p) ==
  [concentrator     |-> IF p.concentrator = NullName THEN NULL
                        ELSE Find(concentrators, p.concentrator),
   pvCell           |-> Find(pvCells, p.pvCell),
   battery          |-> Find(batteries, p.battery),
   concentratorArea |-> p.parameters.concentratorArea,
   pvArea           |-> p.parameters.pvArea,
   batteryCapacity  |-> p.parameters.batteryCapacity,
   baseLoad         |-> p.parameters.baseLoad,
   durationHours    |-> p.parameters.duration,
   yearsInOperation |-> p.parameters.years]

PresetConfigs == { PresetConfig(presets[i]) : i \in 1..Len(presets) }

LinearFresnel == Find(concentrators, "Linear Fresnel Reflector")

TripleJunction == Find(pvCells, "Triple-junction GaAs (3J)")

QuadJunction == Find(pvCells, "Quad-junction IMM")

LithiumNMC == Find(batteries, "Lithium-ion (NMC)")

LithiumAir == Find(batteries, "Lithium-Air")

\* runs of at most 6.5 h over both generation branches, both clamps of the
\* state of charge, cells whose derating reaches the 0.1 floor, a load of 0
\* and the unvalidated capacity 0
ShortConfigs ==
  [concentrator     : {NULL, LinearFresnel},
   pvCell           : {TripleJunction, HotCell, RunawayCell},
   battery          : {LithiumNMC, LithiumAir},
   concentratorArea : {0, 30},
   pvArea           : {0, 500},
   batteryCapacity  : {0, 100, 8000},
   baseLoad         : {0, 100},
   durationHours    : {-10, 5, 30, 650},
   yearsInOperation : {0, MaxYears}]

\* durations below 0.1 h: -0.05 h, 0 h and 0.09 h, with and without a
\* concentrator, a load and a capacity
EmptyConfigs ==
  [concentrator     : {NULL, LinearFresnel},
   pvCell           : {TripleJunction},
   battery          : {LithiumNMC},
   concentratorArea : {30},
   pvArea           : {500},
   batteryCapacity  : {0, 8000},
   baseLoad         : {0, 100},
   durationHours    : {-5, 0, 9},
   yearsInOperation : {0}]

\* 48 h without any generation (spec scenario B), by either branch
DarkConfigs ==
  [concentrator     : {NULL},
   pvCell           : {QuadJunction},
   battery          : {LithiumNMC, IdealBattery},
   concentratorArea : {0},
   pvArea           : {0},
   batteryCapacity  : {8000},
   baseLoad         : {100},
   durationHours    : {4800},
   yearsInOperation : {0}]
  \cup
  [concentrator     : {LinearFresnel},
   pvCell           : {QuadJunction},
   battery          : {LithiumNMC},
   concentratorArea : {0},
   pvArea           : {80},
   batteryCapacity  : {8000},
   baseLoad         : {100},
   durationHours    : {4800},
   yearsInOperation : {0}]

\* a run clamped at 0.95 during the day whose 15 night steps of 0.05 each end
\* at a minimum of exactly 0.20, with a positive energy balance
ThresholdConfigs ==
  [concentrator     : {NULL},
   pvCell           : {TripleJunction},
   battery          : {IdealBattery},
   concentratorArea : {0},
   pvArea           : {500},
   batteryCapacity  : {200},
   baseLoad         : {50},
   durationHours    : {260},
   yearsInOperation : {0}]

\* runs of one rotation (4.2 h) on 8 m2 of quad-junction cells
RotationConfigs ==
  [concentrator     : {NULL},
   pvCell           : {QuadJunction},
   battery          : {LithiumNMC, LithiumAir},
   concentratorArea : {0},
   pvArea           : {80},
   batteryCapacity  : {10000},
   baseLoad         : {100},
   durationHours    : {420},
   yearsInOperation : {0}]

\* runs of 1.5 h on a battery of capacity 0 or below, with and without
\* generation and load
NoCapacityConfigs ==
  [concentrator     : {NULL},
   pvCell           : {TripleJunction},
   battery          : {LithiumNMC},
   concentratorArea : {0},
   pvArea           : {0, 50},
   batteryCapacity  : {0, -100, -8000},
   baseLoad         : {0, 100},
   durationHours    : {150},
   yearsInOperation : {0}]

\* runs of 0.3 h of every concentrator with every cell of the catalogs after
\* MaxYears years
AgedConfigs ==
  [concentrator     : {concentrators[i] : i \in 1..Len(concentrators)},
   pvCell           : {pvCells[i] : i \in 1..Len(pvCells)},
   battery          : {LithiumNMC},
   concentratorArea : {30},
   pvArea           : {10},
   batteryCapacity  : {8000},
   baseLoad         : {100},
   durationHours    : {30},
   yearsInOperation : {MaxYears}]

\* configurations without a PV cell or without a battery
InvalidConfigs ==
  [concentrator     : {NULL, LinearFresnel},
   pvCell           : {NULL, TripleJunction},
   battery          : {NULL, LithiumNMC},
   concentratorArea : {30},
   pvArea           : {10},
   batteryCapacity  : {8000},
   baseLoad         : {100},
   durationHours    : {30},
   yearsInOperation : {0}]

Configs ==
  PresetConfigs \cup ShortConfigs \cup DarkConfigs \cup ThresholdConfigs \cup RotationConfigs
    \cup NoCapacityConfigs \cup AgedConfigs \cup InvalidConfigs \cup EmptyConfigs

\* the configurations of the behaviours with several calls
RunConfigs ==
  [concentrator     : {NULL},
   pvCell           : {TripleJunction},
   battery          : {LithiumNMC},
   concentratorArea : {0},
   pvArea           : {0, 500},
   batteryCapacity  : {100},
   baseLoad         : {100},
   durationHours    : {30, 120},
   yearsInOperation : {0}]
  \cup
  [concentrator     : {NULL},
   pvCell           : {TripleJunction},
   battery          : {NULL},
   concentratorArea : {0},
   pvArea           : {500},
   batteryCapacity  : {100},
   baseLoad         : {100},
   durationHours    : {30},
   yearsInOperation : {0}]

ParabolicTrough == Find(concentrators, "Parabolic Trough")

HolographicConcentrator == Find(concentrators, "Holographic Concentrator")

\* the configurations of the behaviours that compare two calls: runs of 0.3 h
\* (lit throughout) and of 1.5 h (11 lit steps, 4 dark ones), two
\* concentrators of equal efficiency and different concentration ratio
PairConfigs ==
  [concentrator     : {NULL, ParabolicTrough, HolographicConcentrator},
   pvCell           : {TripleJunction, RunawayCell},
   battery          : {LithiumNMC, LithiumAir},
   concentratorArea : {0, 30},
   pvArea           : {0, 500},
   batteryCapacity  : {100, 8000},
   baseLoad         : {100},
   durationHours    : {30, 150},
   yearsInOperation : {0, MaxYears}]

\* configurations with or without a loss-free concentrator of the area of the
\* cells (3 m2), for cells whose derating stays above, and falls to, the floor
BranchConfigs ==
  [concentrator     : {NULL, PerfectConcentrator},
   pvCell           : {TripleJunction, RunawayCell},
   battery          : {LithiumNMC},
   concentratorArea : {30},
   pvArea           : {30},
   batteryCapacity  : {8000},
   baseLoad         : {100},
   durationHours    : {150},
   yearsInOperation : {0, MaxYears}]

\* the fields in which two configurations differ
Differences(a, b) == {f \in DOMAIN a : a[f] # b[f]}

(***************************************************************************)
(* Simulation driver                                                       *)
(***************************************************************************)
\* 0.1 h, in steps
timeStep == 1

\* durations d (in 0.1 h, up to 6 h) whose IEEE quotient d/10 / 0.1 falls
\* just below the integer d, so that Math.floor yields d - 1
QuotientBelow == {3, 6, 7, 12, 14, 19, 23, 24, 28, 29, 33, 38, 41, 43, 46, 48, 51, 53, 56, 58}

\* a step count rounded to the nearest whole number instead of down
numStepsOf_Rounded(durationHours) == (durationHours + 5) \div 10

\* Math.floor(config.durationHours / timeStep)
numStepsOf(durationHours) ==
  LET tenths == durationHours \div 10
  IN  IF durationHours % 10 = 0 /\ tenths \in QuotientBelow THEN tenths - 1 ELSE tenths

\* Math.pow(base, n) for a whole number of years, in 1/Scale
RECURSIVE MathPow(_, _)
MathPow(base, n) == IF n = 0 THEN Scale ELSE MulDiv(MathPow(base, n - 1), base, Scale)

concentratorEffOf(cfg) ==
  IF cfg.concentrator # NULL
  THEN MulDiv(cfg.concentrator.efficiency, MathPow(Scale - Scale \div 1000, cfg.yearsInOperation), Scale)
  ELSE 0

\* a cell that keeps its catalog efficiency
pvEffOf_NoDegradation(cfg) == cfg.pvCell.efficiency

pvEffOf(cfg) ==
  MulDiv(cfg.pvCell.efficiency, MathPow(Scale - cfg.pvCell.degradation_rate, cfg.yearsInOperation), Scale)

\* a branch that falls back to direct PV when the concentrator has no area
pvPowerOf_DirectWithoutArea(cfg, t, surfaceTemp, cEff, pEff) ==
  IF cfg.concentrator # NULL /\ cfg.concentratorArea > 0
  THEN calculatePVPower(calculateConcentratorPower(t, cfg.concentratorArea, cEff),
                        cfg.concentrator.concentration_ratio, cfg.pvArea, pEff,
                        cfg.pvCell.temp_coefficient, surfaceTemp)
  ELSE directPVPower(t, cfg.pvArea, pEff, cfg.pvCell.temp_coefficient, surfaceTemp)

\* lines 230-261: the generated power of one step
pvPowerOf(cfg, t, surfaceTemp, cEff, pEff) ==
  IF cfg.concentrator # NULL
  THEN calculatePVPower(calculateConcentratorPower(t, cfg.concentratorArea, cEff),
                        cfg.concentrator.concentration_ratio, cfg.pvArea, pEff,
                        cfg.pvCell.temp_coefficient, surfaceTemp)
  ELSE directPVPower(t, cfg.pvArea, pEff, cfg.pvCell.temp_coefficient, surfaceTemp)

(***************************************************************************)
(* Metrics evaluator                                                       *)
(***************************************************************************)
\* arr.reduce((a, b) => a + b * weight, 0) over arr[lo..hi]; the range is
\* halved to keep the evaluation shallow, integer addition being associative
RECURSIVE Reduce(_, _, _, _)
Reduce(arr, lo, hi, weight) ==
  IF lo > hi THEN 0
  ELSE IF lo = hi THEN arr[lo] * weight
  ELSE LET mid == (lo + hi) \div 2
       IN  Reduce(arr, lo, mid, weight) + Reduce(arr, mid + 1, hi, weight)

\* Math.max(...arr) and Math.min(...arr) over arr[lo..hi]
RECURSIVE SpreadMax(_, _, _)
SpreadMax(arr, lo, hi) ==
  IF lo > hi THEN NegInf
  ELSE IF lo = hi THEN arr[lo]
  ELSE LET mid == (lo + hi) \div 2
       IN  MathMax(SpreadMax(arr, lo, mid), SpreadMax(arr, mid + 1, hi))

RECURSIVE SpreadMin(_, _, _)
SpreadMin(arr, lo, hi) ==
  IF lo > hi THEN PosInf
  ELSE IF lo = hi THEN arr[lo]
  ELSE LET mid == (lo + hi) \div 2
       IN  MathMin(SpreadMin(arr, lo, mid), SpreadMin(arr, mid + 1, hi))

\* sum / arr.length; 0 / 0 is NaN
Average(arr) == IF Len(arr) = 0 THEN NaN ELSE Reduce(arr, 1, Len(arr), 1) \div Len(arr)

\* a * 1.2 on doubles
TimesOnePointTwo(a) == IF IsFinite(a) THEN MulDiv(a, 12000, Scale) ELSE a

\* healthScore with the two thresholds of minSOC chained by else
healthScoreOf_ElseIf(minSOC, energyBalance, finalSOC, avgPowerGenerated, avgPowerConsumed) ==
    (IF Gt(minSOC, 40 * (SocScale \div 100)) THEN 1
     ELSE IF Gt(minSOC, 20 * (SocScale \div 100)) THEN 1 ELSE 0)
  + (IF Gt(energyBalance, 0) THEN 1 ELSE 0)
  + (IF Gt(finalSOC, 70 * (SocScale \div 100)) THEN 1 ELSE 0)
  + (IF Gt(avgPowerGenerated, TimesOnePointTwo(avgPowerConsumed)) THEN 1 ELSE 0)

\* healthScore whose last criterion asks for any generation at all
healthScoreOf_AnyGeneration(minSOC, energyBalance, finalSOC, avgPowerGenerated, avgPowerConsumed) ==
    (IF Gt(minSOC, 20 * (SocScale \div 100)) THEN 1 ELSE 0)
  + (IF Gt(minSOC, 40 * (SocScale \div 100)) THEN 1 ELSE 0)
  + (IF Gt(energyBalance, 0) THEN 1 ELSE 0)
  + (IF Gt(finalSOC, 70 * (SocScale \div 100)) THEN 1 ELSE 0)
  + (IF Gt(avgPowerGenerated, 0) THEN 1 ELSE 0)

healthScoreOf(minSOC, energyBalance, finalSOC, avgPowerGenerated, avgPowerConsumed) ==
    (IF Gt(minSOC, 20 * (SocScale \div 100)) THEN 1 ELSE 0)
  + (IF Gt(minSOC, 40 * (SocScale \div 100)) THEN 1 ELSE 0)
  + (IF Gt(energyBalance, 0) THEN 1 ELSE 0)
  + (IF Gt(finalSOC, 70 * (SocScale \div 100)) THEN 1 ELSE 0)
  + (IF Gt(avgPowerGenerated, TimesOnePointTwo(avgPowerConsumed)) THEN 1 ELSE 0)

\* viable with a non-strict test of the energy balance
viableOf_NonStrict(minSOC, energyBalance) ==
  Gt(minSOC, 20 * (SocScale \div 100)) /\ IsNumber(energyBalance) /\ energyBalance >= 0

viableOf(minSOC, energyBalance) == Gt(minSOC, 20 * (SocScale \div 100)) /\ Gt(energyBalance, 0)

\* metrics whose min_soc looks at the two ends of the series only
metricsOf_MinOfEnds(powerGen, powerCons, socs) ==
  LET avgPowerGenerated    == Average(powerGen)
      peakPowerGenerated   == SpreadMax(powerGen, 1, Len(powerGen))
      avgPowerConsumed     == Average(powerCons)
      peakPowerConsumed    == SpreadMax(powerCons, 1, Len(powerCons))
      totalEnergyGenerated == Reduce(powerGen, 1, Len(powerGen), timeStep)
      totalEnergyConsumed  == Reduce(powerCons, 1, Len(powerCons), timeStep)
      energyBalance        == totalEnergyGenerated - totalEnergyConsumed
      minSOC               == IF Len(socs) = 0 THEN PosInf ELSE MathMin(socs[1], socs[Len(socs)])
      finalSOC             == IF Len(socs) = 0 THEN Undefined ELSE socs[Len(socs)]
  IN  [avg_power_generated  |-> avgPowerGenerated,
       peak_power_generated |-> peakPowerGenerated,
       avg_power_consumed   |-> avgPowerConsumed,
       peak_power_consumed  |-> peakPowerConsumed,
       energy_balance       |-> energyBalance,
       min_soc              |-> minSOC,
       final_soc            |-> finalSOC,
       system_health        |-> healthScoreOf(minSOC, energyBalance, finalSOC,
                                              avgPowerGenerated, avgPowerConsumed),
       viable               |-> viableOf(minSOC, energyBalance)]

\* metrics whose energy balance drops the surplus a full battery cannot take
metricsOf_StoredOnly(powerGen, powerCons, socs) ==
  LET avgPowerGenerated    == Average(powerGen)
      peakPowerGenerated   == SpreadMax(powerGen, 1, Len(powerGen))
      avgPowerConsumed     == Average(powerCons)
      peakPowerConsumed    == SpreadMax(powerCons, 1, Len(powerCons))
      totalEnergyGenerated == Reduce(powerGen, 1, Len(powerGen), timeStep)
      totalEnergyConsumed  == Reduce(powerCons, 1, Len(powerCons), timeStep)
      minSOC               == SpreadMin(socs, 1, Len(socs))
      finalSOC             == IF Len(socs) = 0 THEN Undefined ELSE socs[Len(socs)]
      energyBalance        == IF finalSOC = 95 * (SocScale \div 100) THEN 0
                              ELSE totalEnergyGenerated - totalEnergyConsumed
  IN  [avg_power_generated  |-> avgPowerGenerated,
       peak_power_generated |-> peakPowerGenerated,
       avg_power_consumed   |-> avgPowerConsumed,
       peak_power_consumed  |-> peakPowerConsumed,
       energy_balance       |-> energyBalance,
       min_soc              |-> minSOC,
       final_soc            |-> finalSOC,
       system_health        |-> healthScoreOf(minSOC, energyBalance, finalSOC,
                                              avgPowerGenerated, avgPowerConsumed),
       viable               |-> viableOf(minSOC, energyBalance)]

metricsOf(powerGen, powerCons, socs) ==
  LET avgPowerGenerated    == Average(powerGen)
      peakPowerGenerated   == SpreadMax(powerGen, 1, Len(powerGen))
      avgPowerConsumed     == Average(powerCons)
      peakPowerConsumed    == SpreadMax(powerCons, 1, Len(powerCons))
      totalEnergyGenerated == Reduce(powerGen, 1, Len(powerGen), timeStep)
      totalEnergyConsumed  == Reduce(powerCons, 1, Len(powerCons), timeStep)
      energyBalance        == totalEnergyGenerated - totalEnergyConsumed
      minSOC               == SpreadMin(socs, 1, Len(socs))
      finalSOC             == IF Len(socs) = 0 THEN Undefined ELSE socs[Len(socs)]
  IN  [avg_power_generated  |-> avgPowerGenerated,
       peak_power_generated |-> peakPowerGenerated,
       avg_power_consumed   |-> avgPowerConsumed,
       peak_power_consumed  |-> peakPowerConsumed,
       energy_balance       |-> energyBalance,
       min_soc              |-> minSOC,
       final_soc            |-> finalSOC,
       system_health        |-> healthScoreOf(minSOC, energyBalance, finalSOC,
                                              avgPowerGenerated, avgPowerConsumed),
       viable               |-> viableOf(minSOC, energyBalance)]

(***************************************************************************)
(* State                                                                   *)
(***************************************************************************)
VARIABLES
  pc,              \* "idle", "loop" (inside runSimulation), "returned", "threw"
  config,          \* the argument of the current call
  numSteps,        \* locals of runSimulation
  concentratorEff,
  pvEff,
  step,
  currentSOC,
  time,            \* the five series
  powerGenerated,
  powerConsumed,
  batterySOC,
  temperature,
  result,          \* what the call returned, NoResult before and after a throw
  thrown,          \* the message of the error the call threw, NoError otherwise
  runs,            \* calls made so far
  returned,        \* every pair of configuration and result returned so far
  selectedConcentrator,  \* state of the Simulator component
  selectedPV,
  selectedBattery,
  parameters,      \* concentratorArea, pvArea, batteryCapacity, baseLoad,
                   \* durationHours and yearsOperation of the component
  isRunning,
  results,
  error,
  outcome,         \* how the last handleRunSimulation ended
  changes          \* preset selections and field changes made so far

vars == << pc, config, numSteps, concentratorEff, pvEff, step, currentSOC, time,
           powerGenerated, powerConsumed, batterySOC, temperature, result, thrown, runs,
           returned, selectedConcentrator, selectedPV, selectedBattery, parameters,
           isRunning, results, error, outcome, changes >>

\* the state of the Simulator component, which runSimulation never touches
uiVars == << selectedConcentrator, selectedPV, selectedBattery, parameters,
             isRunning, results, error, outcome, changes >>

NoResult == [none |-> TRUE]

NoConfig == [none |-> TRUE]

NoError == "none"

\* the error state of the component when no message is displayed
NullMessage == "null"

Init ==
  /\ pc = "idle"
  /\ config = NoConfig
  /\ numSteps = 0
  /\ concentratorEff = 0
  /\ pvEff = 0
  /\ step = 0
  /\ currentSOC = 0
  /\ time = << >>
  /\ powerGenerated = << >>
  /\ powerConsumed = << >>
  /\ batterySOC = << >>
  /\ temperature = << >>
  /\ result = NoResult
  /\ thrown = NoError
  /\ runs = 0
  /\ returned = << >>
  /\ selectedConcentrator = "Linear Fresnel Reflector"
  /\ selectedPV = "Triple-junction GaAs (3J)"
  /\ selectedBattery = "Lithium-ion (NMC)"
  /\ parameters = [concentratorArea |-> 30, pvArea |-> 10, batteryCapacity |-> 8000,
                   baseLoad |-> 100, durationHours |-> 4800, yearsOperation |-> 0]
  /\ isRunning = FALSE
  /\ results = NULL
  /\ error = NullMessage
  /\ outcome = "none"
  /\ changes = 0

\* the validation without its second test
missingComponent_PvOnly(cfg) == cfg.pvCell = NULL

\* a validation that also rejects a capacity of 0 or below
missingComponent_OrNoCapacity(cfg) == cfg.pvCell = NULL \/ cfg.battery = NULL \/ cfg.batteryCapacity <= 0

\* lines 195-200: !config.pvCell, !config.battery
missingComponent(cfg) == cfg.pvCell = NULL \/ cfg.battery = NULL

\* runSimulation with the state of charge kept in a variable of the module
Enter_KeepSOC(cfg) ==
  /\ config' = cfg
  /\ runs' = runs + 1
  /\ result' = NoResult
  /\ time' = << >>
  /\ powerGenerated' = << >>
  /\ powerConsumed' = << >>
  /\ batterySOC' = << >>
  /\ temperature' = << >>
  /\ step' = 0
  /\ currentSOC' = IF runs = 0 THEN 80 * (SocScale \div 100) ELSE currentSOC
  /\ IF missingComponent(cfg)
     THEN /\ pc' = "threw"
          /\ thrown' = IF cfg.pvCell = NULL
                       THEN "Cannot run simulation without photovoltaic cells"
                       ELSE "Cannot run simulation without battery"
          /\ numSteps' = 0
          /\ concentratorEff' = 0
          /\ pvEff' = 0
     ELSE /\ pc' = "loop"
          /\ thrown' = NoError
          /\ numSteps' = numStepsOf(cfg.durationHours)
          /\ concentratorEff' = concentratorEffOf(cfg)
          /\ pvEff' = pvEffOf(cfg)
  /\ UNCHANGED returned

\* lines 193-220: validation, parameters, degradation, fresh arrays, SOC 0.80
Enter(cfg) ==
  /\ config' = cfg
  /\ runs' = runs + 1
  /\ result' = NoResult
  /\ time' = << >>
  /\ powerGenerated' = << >>
  /\ powerConsumed' = << >>
  /\ batterySOC' = << >>
  /\ temperature' = << >>
  /\ step' = 0
  /\ IF missingComponent(cfg)
     THEN /\ pc' = "threw"
          /\ thrown' = IF cfg.pvCell = NULL
                       THEN "Cannot run simulation without photovoltaic cells"
                       ELSE "Cannot run simulation without battery"
          /\ numSteps' = 0
          /\ concentratorEff' = 0
          /\ pvEff' = 0
          /\ currentSOC' = 0
     ELSE /\ pc' = "loop"
          /\ thrown' = NoError
          /\ numSteps' = numStepsOf(cfg.durationHours)
          /\ concentratorEff' = concentratorEffOf(cfg)
          /\ pvEff' = pvEffOf(cfg)
          /\ currentSOC' = 80 * (SocScale \div 100)
  /\ UNCHANGED returned

\* the first call of a behaviour
Call(cfg) ==
  /\ pc = "idle"
  /\ Enter(cfg)
  /\ UNCHANGED uiVars

\* a later call, after the previous one returned or threw
CallAgain(cfg) ==
  /\ pc \in {"returned", "threw"}
  /\ runs < MaxRuns
  /\ Enter(cfg)
  /\ UNCHANGED uiVars

\* a loop that also stops once the battery is at its floor
loopCondition_StopWhenEmpty == step < numSteps /\ currentSOC > 15 * (SocScale \div 100)

\* a loop that runs one step past the last
loopCondition_Inclusive == step <= numSteps

\* line 223: step < numSteps, whatever the state of charge
loopCondition == step < numSteps

\* a loop that degrades the cell once more at every iteration
LoopStep_DegradeInside ==
  /\ pc = "loop"
  /\ loopCondition
  /\ LET t           == step * timeStep
         sunAngle    == getSunAngle(t)
         surfaceTemp == getSurfaceTemperature(sunAngle)
         pvPower     == pvPowerOf(config, t, surfaceTemp, concentratorEff, pvEff)
         loadPower   == calculatePowerConsumption(t, config.baseLoad)
         netPower    == pvPower - loadPower
         newSOC      == updateBatterySOC(currentSOC, netPower, config.batteryCapacity,
                                         config.battery.charge_efficiency,
                                         config.battery.discharge_efficiency, timeStep)
     IN  /\ currentSOC' = newSOC
         /\ time' = Append(time, t)
         /\ powerGenerated' = Append(powerGenerated, pvPower)
         /\ powerConsumed' = Append(powerConsumed, loadPower)
         /\ batterySOC' = Append(batterySOC, newSOC)
         /\ temperature' = Append(temperature, surfaceTemp)
  /\ step' = step + 1
  /\ pvEff' = MulDiv(pvEff, Scale - config.pvCell.degradation_rate, Scale)
  /\ UNCHANGED << uiVars, pc, config, numSteps, concentratorEff, result, thrown, runs,
                  returned >>

\* a loop that records the state of charge before it updates it
LoopStep_RecordBefore ==
  /\ pc = "loop"
  /\ loopCondition
  /\ LET t           == step * timeStep
         sunAngle    == getSunAngle(t)
         surfaceTemp == getSurfaceTemperature(sunAngle)
         pvPower     == pvPowerOf(config, t, surfaceTemp, concentratorEff, pvEff)
         loadPower   == calculatePowerConsumption(t, config.baseLoad)
         netPower    == pvPower - loadPower
         newSOC      == updateBatterySOC(currentSOC, netPower, config.batteryCapacity,
                                         config.battery.charge_efficiency,
                                         config.battery.discharge_efficiency, timeStep)
     IN  /\ currentSOC' = newSOC
         /\ time' = Append(time, t)
         /\ powerGenerated' = Append(powerGenerated, pvPower)
         /\ powerConsumed' = Append(powerConsumed, loadPower)
         /\ batterySOC' = Append(batterySOC, currentSOC)
         /\ temperature' = Append(temperature, surfaceTemp)
  /\ step' = step + 1
  /\ UNCHANGED << uiVars, pc, config, numSteps, concentratorEff, pvEff, result, thrown, runs,
                  returned >>

\* lines 223-285: one iteration of the loop
LoopStep ==
  /\ pc = "loop"
  /\ loopCondition
  /\ LET t           == step * timeStep
         sunAngle    == getSunAngle(t)
         surfaceTemp == getSurfaceTemperature(sunAngle)
         pvPower     == pvPowerOf(config, t, surfaceTemp, concentratorEff, pvEff)
         loadPower   == calculatePowerConsumption(t, config.baseLoad)
         netPower    == pvPower - loadPower
         newSOC      == updateBatterySOC(currentSOC, netPower, config.batteryCapacity,
                                         config.battery.charge_efficiency,
                                         config.battery.discharge_efficiency, timeStep)
     IN  /\ currentSOC' = newSOC
         /\ time' = Append(time, t)
         /\ powerGenerated' = Append(powerGenerated, pvPower)
         /\ powerConsumed' = Append(powerConsumed, loadPower)
         /\ batterySOC' = Append(batterySOC, newSOC)
         /\ temperature' = Append(temperature, surfaceTemp)
  /\ step' = step + 1
  /\ UNCHANGED << uiVars, pc, config, numSteps, concentratorEff, pvEff, result, thrown, runs,
                  returned >>

\* lines 287-327: the loop is over, reduce the series and return
Finish ==
  /\ pc = "loop"
  /\ ~loopCondition
  /\ pc' = "returned"
  /\ result' = [time            |-> time,
                power_generated |-> powerGenerated,
                power_consumed  |-> powerConsumed,
                battery_soc     |-> batterySOC,
                temperature     |-> temperature,
                metrics         |-> metricsOf(powerGenerated, powerConsumed, batterySOC)]
  /\ returned' = Append(returned, [config |-> config, result |-> result'])
  /\ UNCHANGED << uiVars, config, numSteps, concentratorEff, pvEff, step, currentSOC, time,
                  powerGenerated, powerConsumed, batterySOC, temperature, thrown, runs >>

Next ==
  \/ \E cfg \in Configs : Call(cfg)
  \/ LoopStep
  \/ Finish

Spec == Init /\ [][Next]_vars

NextRuns ==
  \/ \E cfg \in RunConfigs : Call(cfg)
  \/ \E cfg \in RunConfigs : CallAgain(cfg)
  \/ LoopStep
  \/ Finish

SpecRuns == Init /\ [][NextRuns]_vars

\* a second call whose configuration differs from the first in one field
CallVariant(cfg) ==
  /\ pc = "returned"
  /\ Len(returned) = 1
  /\ Cardinality(Differences(config, cfg)) = 1
  /\ Enter(cfg)
  /\ UNCHANGED uiVars

NextPairs ==
  \/ \E cfg \in PairConfigs \cup BranchConfigs : Call(cfg)
  \/ \E cfg \in PairConfigs \cup BranchConfigs : CallVariant(cfg)
  \/ LoopStep
  \/ Finish

SpecPairs == Init /\ [][NextPairs]_vars

(***************************************************************************)
(* Simulator component (src/components/Simulator.tsx)                      *)
(***************************************************************************)
\* the presets whose buttons are pressed: "baseline", which restores the
\* initial selection, and "no-concentrator", which empties the concentrator
PresetChoices == {1, 5}

\* values the change events of the three selects deliver: names that no
\* record carries (a listed name in other letter case, the empty string)
ConcentratorNames == {"Unlisted concentrator"}

PvNames == {"triple-junction gaas (3j)"}

BatteryNames == {""}

\* values the change events of the six number inputs deliver, one for each:
\* 0 m2, 8 m2, 0 Wh (the value of an emptied input), 0 W, 0.3 h, MaxYears
NumberInputs ==
  [concentratorArea |-> 0, pvArea |-> 80, batteryCapacity |-> 0, baseLoad |-> 0,
   durationHours |-> 30, yearsOperation |-> MaxYears]

\* handlers run to completion: none starts while handleRunSimulation is inside
\* runSimulation
Rendered == ~isRunning /\ pc \in {"idle", "returned", "threw"}

Change ==
  /\ Rendered
  /\ changes < MaxChanges
  /\ changes' = changes + 1
  /\ UNCHANGED << pc, config, numSteps, concentratorEff, pvEff, step, currentSOC, time,
                  powerGenerated, powerConsumed, batterySOC, temperature, result, thrown,
                  runs, returned, isRunning, results, error, outcome >>

handlePresetSelect(preset) ==
  /\ Change
  /\ selectedConcentrator' = IF preset.concentrator = NullName THEN "" ELSE preset.concentrator
  /\ selectedPV' = preset.pvCell
  /\ selectedBattery' = preset.battery
  /\ parameters' = [concentratorArea |-> preset.parameters.concentratorArea,
                    pvArea           |-> preset.parameters.pvArea,
                    batteryCapacity  |-> preset.parameters.batteryCapacity,
                    baseLoad         |-> preset.parameters.baseLoad,
                    durationHours    |-> preset.parameters.duration,
                    yearsOperation   |-> preset.parameters.years]

setSelectedConcentrator(value) ==
  /\ Change
  /\ selectedConcentrator' = value
  /\ UNCHANGED << selectedPV, selectedBattery, parameters >>

setSelectedPV(value) ==
  /\ Change
  /\ selectedPV' = value
  /\ UNCHANGED << selectedConcentrator, selectedBattery, parameters >>

setSelectedBattery(value) ==
  /\ Change
  /\ selectedBattery' = value
  /\ UNCHANGED << selectedConcentrator, selectedPV, parameters >>

setParameter(field, value) ==
  /\ Change
  /\ parameters' = [parameters EXCEPT ![field] = value]
  /\ UNCHANGED << selectedConcentrator, selectedPV, selectedBattery >>

setConcentratorArea(value) == setParameter("concentratorArea", value)

setPvArea(value) == setParameter("pvArea", value)

setBatteryCapacity(value) == setParameter("batteryCapacity", value)

setBaseLoad(value) == setParameter("baseLoad", value)

setDurationHours(value) == setParameter("durationHours", value)

setYearsOperation(value) == setParameter("yearsOperation", value)

\* lines 44-48: the three lookups by name of handleRunSimulation
selectedConfig ==
  [concentrator     |-> IF selectedConcentrator # ""
                        THEN Find(concentrators, selectedConcentrator)
                        ELSE NULL,
   pvCell           |-> Find(pvCells, selectedPV),
   battery          |-> Find(batteries, selectedBattery),
   concentratorArea |-> parameters.concentratorArea,
   pvArea           |-> parameters.pvArea,
   batteryCapacity  |-> parameters.batteryCapacity,
   baseLoad         |-> parameters.baseLoad,
   durationHours    |-> parameters.durationHours,
   yearsInOperation |-> parameters.yearsOperation]

\* a handler that forgets the displayed result when the lookup fails
handleRunSimulation_ClearOnError ==
  /\ Rendered
  /\ LET cfg == selectedConfig
     IN  IF cfg.pvCell = NULL \/ cfg.battery = NULL
         THEN /\ error' = "Please select PV cell and battery"
              /\ isRunning' = FALSE
              /\ outcome' = "failed"
              /\ results' = NULL
              /\ UNCHANGED << pc, config, numSteps, concentratorEff, pvEff, step,
                              currentSOC, time, powerGenerated, powerConsumed, batterySOC,
                              temperature, result, thrown, runs, returned >>
         ELSE /\ runs < MaxRuns
              /\ isRunning' = TRUE
              /\ error' = NullMessage
              /\ outcome' = "running"
              /\ Enter(cfg)
              /\ UNCHANGED results
  /\ UNCHANGED << selectedConcentrator, selectedPV, selectedBattery, parameters, changes >>

\* a handler that checks the battery only before it calls runSimulation
handleRunSimulation_BatteryOnly ==
  /\ Rendered
  /\ LET cfg == selectedConfig
     IN  IF cfg.battery = NULL
         THEN /\ error' = "Please select PV cell and battery"
              /\ isRunning' = FALSE
              /\ outcome' = "failed"
              /\ UNCHANGED << pc, config, numSteps, concentratorEff, pvEff, step,
                              currentSOC, time, powerGenerated, powerConsumed, batterySOC,
                              temperature, result, thrown, runs, returned, results >>
         ELSE /\ runs < MaxRuns
              /\ isRunning' = TRUE
              /\ error' = NullMessage
              /\ outcome' = "running"
              /\ Enter(cfg)
              /\ UNCHANGED results
  /\ UNCHANGED << selectedConcentrator, selectedPV, selectedBattery, parameters, changes >>

\* lines 39-64: handleRunSimulation up to its call of runSimulation; when a
\* lookup fails the throw, the catch and the finally are part of the step
handleRunSimulation ==
  /\ Rendered
  /\ LET cfg == selectedConfig
     IN  IF cfg.pvCell = NULL \/ cfg.battery = NULL
         THEN /\ error' = "Please select PV cell and battery"
              /\ isRunning' = FALSE
              /\ outcome' = "failed"
              /\ UNCHANGED << pc, config, numSteps, concentratorEff, pvEff, step,
                              currentSOC, time, powerGenerated, powerConsumed, batterySOC,
                              temperature, result, thrown, runs, returned, results >>
         ELSE /\ runs < MaxRuns
              /\ isRunning' = TRUE
              /\ error' = NullMessage
              /\ outcome' = "running"
              /\ Enter(cfg)
              /\ UNCHANGED results
  /\ UNCHANGED << selectedConcentrator, selectedPV, selectedBattery, parameters, changes >>

\* lines 66-71: handleRunSimulation once runSimulation returned or threw
handleRunSimulationEnd ==
  /\ isRunning
  /\ pc \in {"returned", "threw"}
  /\ IF pc = "returned"
     THEN /\ results' = result
          /\ outcome' = "succeeded"
          /\ UNCHANGED error
     ELSE /\ error' = thrown
          /\ outcome' = "failed"
          /\ UNCHANGED results
  /\ isRunning' = FALSE
  /\ UNCHANGED << pc, config, numSteps, concentratorEff, pvEff, step, currentSOC, time,
                  powerGenerated, powerConsumed, batterySOC, temperature, result, thrown,
                  runs, returned, selectedConcentrator, selectedPV, selectedBattery,
                  parameters, changes >>

NextUI ==
  \/ \E i \in PresetChoices : handlePresetSelect(presets[i])
  \/ \E value \in ConcentratorNames : setSelectedConcentrator(value)
  \/ \E value \in PvNames : setSelectedPV(value)
  \/ \E value \in BatteryNames : setSelectedBattery(value)
  \/ setConcentratorArea(NumberInputs.concentratorArea)
  \/ setPvArea(NumberInputs.pvArea)
  \/ setBatteryCapacity(NumberInputs.batteryCapacity)
  \/ setBaseLoad(NumberInputs.baseLoad)
  \/ setDurationHours(NumberInputs.durationHours)
  \/ setYearsOperation(NumberInputs.yearsOperation)
  \/ handleRunSimulation
  \/ LoopStep
  \/ Finish
  \/ handleRunSimulationEnd

SpecUI == Init /\ [][NextUI]_vars

TypeOK ==
  /\ pc \in {"idle", "loop", "returned", "threw"}
  /\ Len(time) = step
  /\ runs \in 0..(MaxRuns + 1)

(***************************************************************************)
(* Properties                                                              *)
(***************************************************************************)
SocFloor == 15 * (SocScale \div 100)

SocCeiling == 95 * (SocScale \div 100)

Last(arr) == arr[Len(arr)]

InsideRun == pc \in {"loop", "returned"}

\* C1: with batteryCapacity > 0 every recorded battery_soc[i], and the running
\* SOC itself, lies within [0.15, 0.95], whatever the net power of the step
C1_SocWithinBounds ==
  (InsideRun /\ config.batteryCapacity > 0) =>
    /\ \A i \in 1..Len(batterySOC) :
         /\ IsFinite(batterySOC[i])
         /\ SocFloor <= batterySOC[i]
         /\ batterySOC[i] <= SocCeiling
    /\ SocFloor <= currentSOC /\ currentSOC <= SocCeiling

\* one run with capacity > 0 that was clamped at the ceiling and at the floor
C1_Witness ==
  /\ InsideRun
  /\ config.batteryCapacity > 0
  /\ \E i, j \in 1..Len(batterySOC) :
       /\ i < j
       /\ batterySOC[i] = SocCeiling
       /\ powerGenerated[i] > powerConsumed[i]
       /\ batterySOC[j] = SocFloor
       /\ powerGenerated[j] < powerConsumed[j]

NonNegative(n) == IF n < 0 THEN 0 ELSE n

EqualLengths ==
  /\ Len(powerGenerated) = Len(time)
  /\ Len(powerConsumed) = Len(time)
  /\ Len(batterySOC) = Len(time)
  /\ Len(temperature) = Len(time)

\* C2 as stated: the five series have the same length, floor(durationHours / 0.1)
\* in exact arithmetic, for every configuration that passes validation
C2_LengthIsExactFloor ==
  pc = "returned" =>
    /\ EqualLengths
    /\ Len(result.time) = config.durationHours \div 10

\* C2 amended: the five series have the same length at every moment of a run,
\* and a returned result has max(0, Math.floor(durationHours / 0.1)) steps, the
\* quotient being the double the engine computes; the loop stops at no other
\* length, also when the SOC sits at its floor
C2_SeriesLength ==
  /\ InsideRun => EqualLengths /\ Len(time) = step
  /\ pc = "returned" =>
       /\ Len(time) = NonNegative(numStepsOf(config.durationHours))
       /\ Len(result.time) = Len(time)
       /\ Len(result.power_generated) = Len(time)
       /\ Len(result.power_consumed) = Len(time)
       /\ Len(result.battery_soc) = Len(time)
       /\ Len(result.temperature) = Len(time)

\* a returned 48 h run of 480 steps whose SOC reached the floor long before the end
C2_Witness ==
  /\ pc = "returned"
  /\ Len(result.battery_soc) = 480
  /\ result.battery_soc[300] = SocFloor
  /\ result.battery_soc[480] = SocFloor

ValidPhysics(cfg) ==
  /\ cfg.concentratorArea >= 0
  /\ cfg.pvArea >= 0
  /\ cfg.baseLoad >= 0
  /\ cfg.pvCell.efficiency >= 0
  /\ cfg.pvCell.degradation_rate \in 0..Scale
  /\ cfg.concentrator # NULL => cfg.concentrator.efficiency >= 0

\* C3: at every step the generated power is >= 0 and the consumed power is
\* >= baseLoad, with or without concentrator
C3_PowerSigns ==
  (InsideRun /\ ValidPhysics(config)) =>
    \A i \in 1..Len(time) :
      /\ powerGenerated[i] >= 0
      /\ powerConsumed[i] >= config.baseLoad * MilliWatt

\* a sunlit step of the concentrator branch with a cell whose derating would be
\* negative without the 0.1 floor, and as much load as base load in the same run
C3_Witness ==
  /\ InsideRun
  /\ config.concentrator # NULL
  /\ config.pvCell = RunawayCell
  /\ config.baseLoad > 0
  /\ Len(time) > 0
  /\ Last(powerGenerated) > 0
  /\ Last(powerConsumed) > config.baseLoad * MilliWatt

\* C4: the call throws exactly when pvCell or battery is missing, before any
\* step: no series element, no SOC, no result; with both present, and any
\* concentrator, it runs and what it returns is a result
C4_ConfigurationError ==
  /\ pc = "threw" =>
       /\ config.pvCell = NULL \/ config.battery = NULL
       /\ thrown # NoError
       /\ result = NoResult
       /\ Len(time) = 0 /\ Len(batterySOC) = 0 /\ step = 0
  /\ InsideRun =>
       /\ config.pvCell # NULL /\ config.battery # NULL
       /\ thrown = NoError
  /\ pc = "returned" => result # NoResult /\ step = NonNegative(numSteps)
  /\ pc = "loop" => result = NoResult /\ step <= NonNegative(numSteps)

\* a call that threw for the missing battery alone
C4_Witness ==
  /\ pc = "threw"
  /\ config.pvCell # NULL
  /\ config.battery = NULL
  /\ thrown = "Cannot run simulation without battery"

SameConfigSameResult ==
  \A i, j \in 1..Len(returned) :
    returned[i].config = returned[j].config => returned[i].result = returned[j].result

\* C5: two calls with the same configuration return the same series and the
\* same metrics, whatever was run before or in between, and a run leaves its
\* configuration as it was
C5_Determinism ==
  [][ /\ pc = "loop" => config' = config
      /\ SameConfigSameResult' ]_vars

\* three calls returned: one configuration, then twice another one, the
\* first run having driven its SOC away from 0.80
C5_Witness ==
  /\ Len(returned) = 3
  /\ returned[1].config # returned[2].config
  /\ returned[2].config = returned[3].config
  /\ Len(returned[1].result.battery_soc) > 0
  /\ Last(returned[1].result.battery_soc) # 80 * (SocScale \div 100)
  /\ Len(returned[3].result.time) > 0

SocThreshold20 == 20 * (SocScale \div 100)

\* C6: viable is true exactly when min_soc > 0.20 and energy_balance > 0, both
\* strict: a balance of exactly 0 or a minimum of exactly 0.20 is not viable
C6_Viable ==
  pc = "returned" =>
    LET m == result.metrics
    IN  /\ m.viable <=> (Gt(m.min_soc, SocThreshold20) /\ Gt(m.energy_balance, 0))
        /\ m.energy_balance = 0 => ~m.viable
        /\ m.min_soc = SocThreshold20 => ~m.viable
        /\ (m.viable /\ Len(batterySOC) > 0) => \A i \in 1..Len(batterySOC) : batterySOC[i] > SocThreshold20

\* a run with a positive energy balance whose minimum SOC is exactly 0.20:
\* not viable
C6_Witness ==
  /\ pc = "returned"
  /\ result.metrics.energy_balance > 0
  /\ result.metrics.min_soc = SocThreshold20
  /\ result.metrics.viable = FALSE

HealthCriteria(m) ==
  { k \in 1..5 :
      \/ k = 1 /\ Gt(m.min_soc, SocThreshold20)
      \/ k = 2 /\ Gt(m.min_soc, 40 * (SocScale \div 100))
      \/ k = 3 /\ Gt(m.energy_balance, 0)
      \/ k = 4 /\ Gt(m.final_soc, 70 * (SocScale \div 100))
      \/ k = 5 /\ Gt(m.avg_power_generated, TimesOnePointTwo(m.avg_power_consumed)) }

\* C7: system_health is the number, between 0 and 5, of the five criteria that
\* hold, each counted on its own
C7_HealthScore ==
  pc = "returned" =>
    /\ result.metrics.system_health \in 0..5
    /\ result.metrics.system_health = Cardinality(HealthCriteria(result.metrics))

\* a result where both thresholds of min_soc and the final SOC count while the
\* energy balance and the generation margin do not
C7_Witness ==
  /\ pc = "returned"
  /\ HealthCriteria(result.metrics) = {1, 2, 4}
  /\ result.metrics.system_health = 3

\* clamp(soc + e / capacity, 0.15, 0.95) with the efficiency on the side of the
\* sign of the energy, written out on the doubles
C8_Expected(soc, netPower, capacity, chargeEff, dischargeEff) ==
  LET energy == netPower * timeStep
      e      == IF energy > 0 THEN MulDiv(energy, chargeEff, Scale)
                ELSE MulDiv(energy, Scale, dischargeEff)
      raw    == IF capacity # 0 THEN soc + MulDiv(e, SocScale \div Scale, capacity)
                ELSE IF e > 0 THEN PosInf ELSE IF e < 0 THEN NegInf ELSE NaN
  IN  IF ~IsNumber(soc) \/ ~IsNumber(raw) THEN NaN
      ELSE IF raw < SocFloor THEN SocFloor
      ELSE IF raw > SocCeiling THEN SocCeiling
      ELSE raw

\* C8: each step replaces the SOC by clamp(soc + e / capacity, 0.15, 0.95), e
\* being energy * charge_efficiency for energy > 0 and energy /
\* discharge_efficiency otherwise; the new SOC depends on nothing but the old
\* SOC and the net power of this step, so what the clamp cut off is gone
C8_BatteryUpdate ==
  [][ Len(batterySOC') = Len(batterySOC) + 1 =>
        /\ currentSOC' = C8_Expected(currentSOC,
                                     Last(powerGenerated') - Last(powerConsumed'),
                                     config.batteryCapacity,
                                     config.battery.charge_efficiency,
                                     config.battery.discharge_efficiency)
        /\ Last(batterySOC') = currentSOC' ]_vars

\* a surplus step clamped at 0.95 followed by a deficit step that discharges
\* from exactly 0.95
C8_Witness ==
  /\ InsideRun
  /\ \E i \in 1..(Len(batterySOC) - 1) :
       /\ powerGenerated[i] > powerConsumed[i]
       /\ batterySOC[i] = SocCeiling
       /\ powerGenerated[i + 1] < powerConsumed[i + 1]
       /\ batterySOC[i + 1] < SocCeiling
       /\ batterySOC[i + 1] > SocFloor
       /\ batterySOC[i + 1] =
            SocCeiling + MulDiv(MulDiv(powerGenerated[i + 1] - powerConsumed[i + 1], Scale,
                                       config.battery.discharge_efficiency),
                                SocScale \div Scale, config.batteryCapacity)

Illumination(t) == MathMax(0, MathCos(getSunAngle(t)))

Indicator(b) == IF b THEN 1 ELSE 0

\* C9: the consumed power of a step is baseLoad * (1 + 1.5 [illumination > 0]
\* + 0.8 [time mod 6 < 0.5] + 1.0 [illumination <= 0]), hence 2.0, 2.5, 2.8 or
\* 3.3 times baseLoad, the communication term depending on the time alone
C9_LoadFormula ==
  InsideRun =>
    \A i \in 1..Len(time) :
      LET t == time[i]
          b == config.baseLoad
      IN  /\ powerConsumed[i] = b * ( 1000
                                      + 1500 * Indicator(Illumination(t) > 0)
                                      + 800 * Indicator(t % 60 < 5)
                                      + 1000 * Indicator(Illumination(t) <= 0) )
          /\ powerConsumed[i] \in {2000 * b, 2500 * b, 2800 * b, 3300 * b}
          /\ (powerConsumed[i] \in {2800 * b, 3300 * b} /\ b > 0) <=> (t % 60 < 5 /\ b > 0)

\* a run that recorded all four levels of a positive base load, the
\* communication window falling once in the day and once in the night
C9_Witness ==
  /\ InsideRun
  /\ config.baseLoad > 0
  /\ \E i \in 1..Len(time) : powerConsumed[i] = 3300 * config.baseLoad
  /\ \E i \in 1..Len(time) : powerConsumed[i] = 2500 * config.baseLoad
  /\ \E i \in 1..Len(time) : powerConsumed[i] = 2000 * config.baseLoad
  /\ \E i \in 1..Len(time) : powerConsumed[i] = 2800 * config.baseLoad

NoGeneration == InsideRun /\ \A i \in 1..Len(powerGenerated) : powerGenerated[i] = 0

SocBefore(i) == IF i = 1 THEN 80 * (SocScale \div 100) ELSE batterySOC[i - 1]

\* C10: without generation, with batteryCapacity 8000 and baseLoad 100, the SOC
\* decreases at each step until it is 0.15, is exactly 0.15 at every later
\* step, and the result is not viable
C10_DarkDischarge ==
  (NoGeneration /\ config.batteryCapacity = 8000 /\ config.baseLoad = 100) =>
    /\ \A i \in 1..Len(batterySOC) :
         IF SocBefore(i) > SocFloor
         THEN batterySOC[i] < SocBefore(i) /\ batterySOC[i] >= SocFloor
         ELSE batterySOC[i] = SocFloor
    /\ pc = "returned" => result.metrics.viable = FALSE

\* a returned dark run that went down to 0.15 and then stayed there for
\* more than a hundred steps
C10_Witness ==
  /\ NoGeneration
  /\ pc = "returned"
  /\ config.batteryCapacity = 8000
  /\ config.baseLoad = 100
  /\ \E i \in 2..(Len(batterySOC) - 100) :
       /\ batterySOC[i - 1] > SocFloor
       /\ \A j \in i..Len(batterySOC) : batterySOC[j] = SocFloor
  /\ result.metrics.viable = FALSE

(***************************************************************************)
(* Comparisons of two calls                                                *)
(***************************************************************************)
\* two calls have returned and their configurations differ in field f only
PairDiffersIn(f) == Len(returned) = 2 /\ Differences(returned[1].config, returned[2].config) = {f}

\* of a pair that differs in yearsInOperation, the call with fewer years
Younger ==
  IF returned[1].config.yearsInOperation < returned[2].config.yearsInOperation
  THEN returned[1] ELSE returned[2]

Older ==
  IF returned[1].config.yearsInOperation < returned[2].config.yearsInOperation
  THEN returned[2] ELSE returned[1]

Steps(r) == 1..Len(r.result.time)

Lit(r, i) == Illumination(r.result.time[i]) > 0

\* C11 as stated: of two configurations that differ in yearsInOperation only,
\* the older generates strictly less at every lit step and both generate 0 at
\* every other step
C11_StrictlySmaller ==
  PairDiffersIn("yearsInOperation") =>
    \A i \in Steps(Younger) :
      IF Lit(Younger, i)
      THEN Older.result.power_generated[i] < Younger.result.power_generated[i]
      ELSE Older.result.power_generated[i] = 0 /\ Younger.result.power_generated[i] = 0

\* the efficiencies in use lose something every year: always with a
\* concentrator (0.1% a year), else only with a degradation rate above 0
Degrades(cfg) == cfg.concentrator # NULL \/ cfg.pvCell.degradation_rate > 0

\* C11: of two configurations that differ in yearsInOperation only, the older
\* never generates more; it generates strictly less at every lit step where
\* the younger generates anything and the efficiencies in use degrade; both
\* generate 0 at every step that is not lit
C11_MonotonicDegradation ==
  PairDiffersIn("yearsInOperation") =>
    /\ Len(Older.result.power_generated) = Len(Younger.result.power_generated)
    /\ \A i \in Steps(Younger) :
         LET young == Younger.result.power_generated[i]
             old   == Older.result.power_generated[i]
         IN  IF Lit(Younger, i)
             THEN /\ old <= young
                  /\ (young > 0 /\ Degrades(Younger.config)) => old < young
                  /\ young = 0 => old = 0
             ELSE old = 0 /\ young = 0

C11_Witness ==
  /\ PairDiffersIn("yearsInOperation")
  /\ \E i \in Steps(Younger) :
       Lit(Younger, i) /\ 0 < Older.result.power_generated[i]
         /\ Older.result.power_generated[i] < Younger.result.power_generated[i]
  /\ \E i \in Steps(Younger) : ~Lit(Younger, i)

(***************************************************************************)
(* Sun angle                                                               *)
(***************************************************************************)
SunAngleInRange(t) == 0 <= getSunAngle(t) /\ getSunAngle(t) < TwoPi

\* C12 as stated: the sun angle of every time of a run equals the sun angle
\* one rotation period later, lies in [0, 2 pi), and is 0 at time 0
C12_ExactlyPeriodic ==
  /\ getSunAngle(0) = 0
  /\ \A i \in 1..Len(time) :
       /\ SunAngleInRange(time[i])
       /\ getSunAngle(time[i]) = getSunAngle(time[i] + ROTATION_PERIOD)

\* the distance of two angles around the circle
CircularDistance(a, b) == IF Abs(a - b) <= TwoPi - Abs(a - b) THEN Abs(a - b) ELSE TwoPi - Abs(a - b)

\* C12: the sun angle of every time of a run lies in [0, 2 pi), is 0 at
\* time 0, and one rotation period later it is the same angle around the
\* circle up to rounding, with the same cosine; the two values are equal
\* unless rounding leaves one of them just below 2 pi
C12_PeriodicAroundCircle ==
  /\ getSunAngle(0) = 0
  /\ \A i \in 1..Len(time) :
       LET a == getSunAngle(time[i])
           b == getSunAngle(time[i] + ROTATION_PERIOD)
       IN  /\ SunAngleInRange(time[i])
           /\ SunAngleInRange(time[i] + ROTATION_PERIOD)
           /\ CircularDistance(a, b) <= 1
           /\ MathCos(a) = MathCos(b)
           /\ (a # b) => (a = BelowTwoPi \/ b = BelowTwoPi)

C12_Witness ==
  /\ \E i \in 1..Len(time) :
       getSunAngle(time[i]) = 0 /\ getSunAngle(time[i] + ROTATION_PERIOD) = BelowTwoPi
  /\ \E i \in 1..Len(time) :
       getSunAngle(time[i]) > 0 /\ getSunAngle(time[i]) = getSunAngle(time[i] + ROTATION_PERIOD)

(***************************************************************************)
(* One rotation of direct generation                                       *)
(***************************************************************************)
\* a run of 4.2 h without concentrator on 8 m2 of cells of efficiency 0.34
OneRotation ==
  /\ InsideRun
  /\ config.concentrator = NULL
  /\ config.pvArea = 8 * AreaScale
  /\ config.pvCell.efficiency = 34 * (Scale \div 100)
  /\ config.yearsInOperation = 0
  /\ config.durationHours = 420

\* C13: in a one-rotation run without concentrator (pvArea 8, efficiency
\* 0.34, 0 years) the series has 42 steps, its maximum is at step 0, it does
\* not increase over steps 0..10, is 0 at steps 11..31, and is positive and
\* increasing over steps 32..41
C13_DayNightCurve ==
  OneRotation =>
    /\ numSteps = 42
    /\ pc = "returned" => Len(powerGenerated) = 42
    /\ \A i \in 1..Len(powerGenerated) :
         /\ powerGenerated[i] <= powerGenerated[1]
         /\ (2 <= i /\ i <= 11) => powerGenerated[i] <= powerGenerated[i - 1]
         /\ (12 <= i /\ i <= 32) => powerGenerated[i] = 0
         /\ (33 <= i /\ i <= 42) => powerGenerated[i] > powerGenerated[i - 1]

C13_Witness ==
  /\ OneRotation
  /\ pc = "returned"
  /\ powerGenerated[1] > powerGenerated[11]
  /\ powerGenerated[11] > 0
  /\ powerGenerated[42] > powerGenerated[33]

InSocRange(soc) == IsFinite(soc) /\ SocFloor <= soc /\ soc <= SocCeiling

\* C15 as stated: a run with batteryCapacity <= 0 raises no error and its
\* battery_soc series, if it has any step, contains a value that is not a
\* number inside [0.15, 0.95]
C15_NonFiniteSoc ==
  (pc = "returned" /\ config.batteryCapacity <= 0 /\ Len(batterySOC) > 0) =>
    /\ thrown = NoError
    /\ \E i \in 1..Len(batterySOC) : ~InSocRange(batterySOC[i])

\* C15: a call with batteryCapacity <= 0, a PV cell and a battery raises no
\* error. With capacity 0 a step of surplus records 0.95, a step of deficit
\* 0.15, and a step of net power exactly 0 records NaN, which every later
\* step keeps. With a negative capacity every recorded value is a number in
\* [0.15, 0.95] that moves against the sign of the net power.
C15_UnvalidatedCapacity ==
  (pc # "idle" /\ config.pvCell # NULL /\ config.battery # NULL
     /\ config.batteryCapacity <= 0) =>
    /\ pc \in {"loop", "returned"}
    /\ thrown = NoError
    /\ \A i \in 1..Len(batterySOC) :
         LET net    == powerGenerated[i] - powerConsumed[i]
             before == SocBefore(i)
             soc    == batterySOC[i]
         IN  IF config.batteryCapacity = 0
             THEN IF before = NaN \/ net = 0 THEN soc = NaN
                  ELSE IF net > 0 THEN soc = SocCeiling ELSE soc = SocFloor
             ELSE /\ InSocRange(soc)
                  /\ net > 0 => soc <= before
                  /\ net < 0 => soc >= before
                  /\ net = 0 => soc = before

C15_Witness ==
  /\ pc = "returned"
  /\ config.batteryCapacity = 0
  /\ \E i \in 1..Len(batterySOC) : batterySOC[i] = SocCeiling
  /\ \E i \in 1..Len(batterySOC) : batterySOC[i] = NaN

(***************************************************************************)
(* Catalog names and presets                                               *)
(***************************************************************************)
UniqueNames(catalog) ==
  \A i \in 1..Len(catalog) : \A j \in 1..Len(catalog) :
    catalog[i].name = catalog[j].name => i = j

Matches(catalog, name) == Cardinality({i \in 1..Len(catalog) : catalog[i].name = name})

\* C16: no two records of a catalog share a name; every preset names exactly
\* one PV cell and one battery, and no concentrator or exactly one; the
\* records its configuration carries are the ones it names, and a call with
\* the configuration of a preset does not throw
C16_PresetsResolve ==
  /\ UniqueNames(concentrators) /\ UniqueNames(pvCells) /\ UniqueNames(batteries)
  /\ \A k \in 1..Len(presets) :
       LET p == presets[k]
       IN  /\ Matches(pvCells, p.pvCell) = 1
           /\ Matches(batteries, p.battery) = 1
           /\ p.concentrator = NullName \/ Matches(concentrators, p.concentrator) = 1
           /\ PresetConfig(p).pvCell.name = p.pvCell
           /\ PresetConfig(p).battery.name = p.battery
           /\ PresetConfig(p).concentrator.name = p.concentrator
  /\ (pc # "idle" /\ config \in PresetConfigs) =>
       /\ pc \in {"loop", "returned"}
       /\ thrown = NoError
       /\ config.pvCell # NULL /\ config.battery # NULL

C16_Witness ==
  /\ pc = "returned"
  /\ \E k \in 1..Len(presets) :
       /\ config = PresetConfig(presets[k])
       /\ presets[k].concentrator # NullName
       /\ config.concentrator \in {concentrators[i] : i \in 1..Len(concentrators)}
  /\ Len(result.time) > 0

(***************************************************************************)
(* Generation branch                                                       *)
(***************************************************************************)
First == returned[1]

Second == returned[2]

SameGeneration == First.result.power_generated = Second.result.power_generated

\* C17: with a concentrator, power_generated is the same for any two pvArea
\* and for two concentrators that differ in concentration_ratio only, and it
\* changes with concentratorArea; without concentrator it is the same for any
\* two concentratorArea and it changes with pvArea
C17_GenerationBranch ==
  /\ (PairDiffersIn("pvArea") /\ First.config.concentrator # NULL) => SameGeneration
  /\ (PairDiffersIn("concentrator") /\ First.config.concentrator # NULL
        /\ Second.config.concentrator # NULL
        /\ First.config.concentrator.efficiency = Second.config.concentrator.efficiency)
       => SameGeneration
  /\ (PairDiffersIn("concentratorArea") /\ First.config.concentrator = NULL) => SameGeneration
  /\ (PairDiffersIn("concentratorArea") /\ First.config.concentrator # NULL) => ~SameGeneration
  /\ (PairDiffersIn("pvArea") /\ First.config.concentrator = NULL) => ~SameGeneration

C17_Witness ==
  /\ PairDiffersIn("pvArea")
  /\ First.config.concentrator # NULL
  /\ First.config.concentratorArea > 0
  /\ SameGeneration
  /\ \E i \in Steps(First) : First.result.power_generated[i] > 0

(***************************************************************************)
(* Energy balance and the battery                                          *)
(***************************************************************************)
\* the sum over steps lo..hi of (generated - consumed) * 0.1 h
RECURSIVE NetEnergy(_, _, _, _)
NetEnergy(gen, cons, lo, hi) ==
  IF lo > hi THEN 0
  ELSE IF lo = hi THEN (gen[lo] - cons[lo]) * timeStep
  ELSE LET mid == (lo + hi) \div 2
       IN  NetEnergy(gen, cons, lo, mid) + NetEnergy(gen, cons, mid + 1, hi)

\* what of a result does not involve the battery
WithoutBattery(r) ==
  [time                 |-> r.time,
   power_generated      |-> r.power_generated,
   power_consumed       |-> r.power_consumed,
   temperature          |-> r.temperature,
   avg_power_generated  |-> r.metrics.avg_power_generated,
   peak_power_generated |-> r.metrics.peak_power_generated,
   avg_power_consumed   |-> r.metrics.avg_power_consumed,
   peak_power_consumed  |-> r.metrics.peak_power_consumed,
   energy_balance       |-> r.metrics.energy_balance]

\* C18: energy_balance is the sum over the steps of (power_generated[i] -
\* power_consumed[i]) * 0.1; two calls that differ in the battery record or
\* in batteryCapacity only return the same time, generated, consumed and
\* temperature series, the same avg and peak powers and the same
\* energy_balance
C18_EnergyBalance ==
  /\ \A k \in 1..Len(returned) :
       LET r == returned[k].result
       IN  r.metrics.energy_balance
             = NetEnergy(r.power_generated, r.power_consumed, 1, Len(r.power_generated))
  /\ (PairDiffersIn("battery") \/ PairDiffersIn("batteryCapacity")) =>
       WithoutBattery(First.result) = WithoutBattery(Second.result)

\* a full battery: the surplus is lost to the clamp, the balance is positive,
\* and the other battery of the pair records another state of charge
C18_Witness ==
  /\ PairDiffersIn("batteryCapacity")
  /\ First.result.metrics.energy_balance > 0
  /\ \A i \in Steps(First) : First.result.battery_soc[i] = SocCeiling
  /\ First.result.battery_soc # Second.result.battery_soc
  /\ First.result.metrics.final_soc # Second.result.metrics.final_soc

(***************************************************************************)
(* Surface temperature                                                     *)
(***************************************************************************)
\* C19: every recorded temperature lies in [100, 270] K, is 100 K where the
\* illumination factor is 0 and 270 K at sun angle 0, and is the function
\* 100 + 170 * max(0, cos(sun angle)) of the sun angle of its own step
C19_Temperature ==
  \A i \in 1..Len(temperature) :
    LET sunAngle == getSunAngle(time[i])
    IN  /\ TEMP_MIN * Scale <= temperature[i]
        /\ temperature[i] <= TEMP_MAX * Scale
        /\ Illumination(time[i]) = 0 => temperature[i] = TEMP_MIN * Scale
        /\ MathCos(sunAngle) <= 0 <=> temperature[i] = TEMP_MIN * Scale
        /\ sunAngle = 0 => temperature[i] = TEMP_MAX * Scale
        /\ temperature[i] = 100 * Scale + 170 * Illumination(time[i])

C19_Witness ==
  /\ pc = "returned"
  /\ \E i \in 1..Len(temperature) :
       getSunAngle(time[i]) = 0 /\ temperature[i] = TEMP_MAX * Scale /\ i > 1
  /\ \E i \in 1..Len(temperature) :
       MathCos(getSunAngle(time[i])) < 0 /\ temperature[i] = TEMP_MIN * Scale
  /\ \E i \in 1..Len(temperature) :
       TEMP_MIN * Scale < temperature[i] /\ temperature[i] < TEMP_MAX * Scale

(***************************************************************************)
(* Degradation                                                             *)
(***************************************************************************)
\* efficiency * (1 - degradation_rate)^yearsInOperation
DegradedPV(cfg) ==
  MulDiv(cfg.pvCell.efficiency, MathPow(Scale - cfg.pvCell.degradation_rate, cfg.yearsInOperation), Scale)

\* efficiency * 0.999^yearsInOperation, 0 without concentrator
DegradedConcentrator(cfg) ==
  IF cfg.concentrator = NULL THEN 0
  ELSE MulDiv(cfg.concentrator.efficiency, MathPow(9990, cfg.yearsInOperation), Scale)

\* C20: throughout a run the PV efficiency in use is efficiency * (1 -
\* degradation_rate)^years and the concentrator efficiency in use is
\* efficiency * 0.999^years, the generation of every step is computed with
\* these two values, and with 0 years both are the catalog values
C20_DegradationOnce ==
  InsideRun =>
    /\ pvEff = DegradedPV(config)
    /\ concentratorEff = DegradedConcentrator(config)
    /\ \A i \in 1..Len(powerGenerated) :
         powerGenerated[i] = pvPowerOf(config, time[i], temperature[i],
                                       DegradedConcentrator(config), DegradedPV(config))
    /\ config.yearsInOperation = 0 =>
         /\ pvEff = config.pvCell.efficiency
         /\ config.concentrator # NULL => concentratorEff = config.concentrator.efficiency

C20_Witness ==
  /\ pc = "returned"
  /\ config.yearsInOperation > 0
  /\ config.concentrator # NULL
  /\ config.concentrator # LinearFresnel
  /\ pvEff < config.pvCell.efficiency
  /\ concentratorEff < config.concentrator.efficiency
  /\ Len(powerGenerated) > 1
  /\ powerGenerated[2] > 0

(***************************************************************************)
(* Instrument and heater loads                                             *)
(***************************************************************************)
\* with a base load above 0 the recorded load tells which terms it holds:
\* base + instruments is 2.5, with communications 3.3 times the base load
InstrumentIncluded(i) ==
  powerConsumed[i] \in {2500 * config.baseLoad, 3300 * config.baseLoad}

\* base + heaters is 2.0, with communications 2.8 times the base load
HeaterIncluded(i) ==
  powerConsumed[i] \in {2000 * config.baseLoad, 2800 * config.baseLoad}

\* C21: at every step exactly one of the instrument load and the heater load
\* is applied; a step that generates power carries the instrument load and a
\* step that carries the heater load generates nothing
C21_InstrumentOrHeater ==
  (InsideRun /\ config.baseLoad > 0) =>
    \A i \in 1..Len(powerConsumed) :
      /\ InstrumentIncluded(i) # HeaterIncluded(i)
      /\ powerGenerated[i] > 0 => InstrumentIncluded(i)
      /\ HeaterIncluded(i) => powerGenerated[i] = 0

\* the communication load met once with the instruments on a generating
\* step and once with the heaters
C21_Witness ==
  /\ InsideRun
  /\ config.baseLoad > 0
  /\ \E i \in 1..Len(powerConsumed) :
       powerGenerated[i] > 0 /\ powerConsumed[i] = 3300 * config.baseLoad
  /\ \E i \in 1..Len(powerConsumed) :
       powerGenerated[i] > 0 /\ powerConsumed[i] = 2500 * config.baseLoad
  /\ \E i \in 1..Len(powerConsumed) :
       powerGenerated[i] = 0 /\ powerConsumed[i] = 2800 * config.baseLoad

(***************************************************************************)
(* Time axis                                                               *)
(***************************************************************************)
\* C22: time[i] = i * 0.1 for every index i counted from 0, the series is
\* strictly increasing and every recorded time is below durationHours
C22_TimeAxis ==
  InsideRun =>
    \A i \in 1..Len(time) :
      /\ time[i] = (i - 1) * timeStep
      /\ i > 1 => time[i] > time[i - 1]
      /\ time[i] * 10 < config.durationHours

\* a run whose last time is one step below its duration
C22_Witness ==
  /\ pc = "returned"
  /\ Len(time) > 1
  /\ time[1] = 0
  /\ (Last(time) + timeStep) * 10 = config.durationHours

(***************************************************************************)
(* Metrics against their series                                            *)
(***************************************************************************)
\* a <= b on doubles: false as soon as one side is NaN
Le(a, b) == IsNumber(a) /\ IsNumber(b) /\ a <= b

HasNaN(arr) == \E i \in 1..Len(arr) : arr[i] = NaN

\* C23 as stated: in every run of at least one step min_soc is at most every
\* battery_soc[i] and at most final_soc, final_soc is the last element, both
\* lie in [0.15, 0.95] for capacity > 0, and each peak power is at least the
\* average
C23_MinBelowEveryStep ==
  (pc = "returned" /\ Len(batterySOC) > 0) =>
    LET m == result.metrics
    IN  /\ m.final_soc = Last(batterySOC)
        /\ \A i \in 1..Len(batterySOC) : Le(m.min_soc, batterySOC[i])
        /\ Le(m.min_soc, m.final_soc)
        /\ config.batteryCapacity > 0 => InSocRange(m.min_soc) /\ InSocRange(m.final_soc)
        /\ Le(m.avg_power_generated, m.peak_power_generated)
        /\ Le(m.avg_power_consumed, m.peak_power_consumed)

\* C23: in every run of at least one step final_soc is the last battery_soc;
\* min_soc is NaN if some battery_soc is NaN, else it is one of the recorded
\* values, at most every battery_soc[i] and at most final_soc; for capacity
\* > 0 no value is NaN and both lie in [0.15, 0.95]; each peak power is at
\* least the average
C23_MetricsOfSeries ==
  (pc = "returned" /\ Len(batterySOC) > 0) =>
    LET m == result.metrics
    IN  /\ m.final_soc = Last(batterySOC)
        /\ IF HasNaN(batterySOC)
           THEN m.min_soc = NaN /\ config.batteryCapacity = 0
           ELSE /\ \E i \in 1..Len(batterySOC) : m.min_soc = batterySOC[i]
                /\ \A i \in 1..Len(batterySOC) : Le(m.min_soc, batterySOC[i])
                /\ Le(m.min_soc, m.final_soc)
        /\ config.batteryCapacity > 0 => InSocRange(m.min_soc) /\ InSocRange(m.final_soc)
        /\ Le(m.avg_power_generated, m.peak_power_generated)
        /\ Le(m.avg_power_consumed, m.peak_power_consumed)

\* a minimum reached inside the run, below both ends of the series
C23_Witness ==
  /\ pc = "returned"
  /\ Len(batterySOC) > 1
  /\ config.batteryCapacity > 0
  /\ result.metrics.min_soc < batterySOC[1]
  /\ result.metrics.min_soc < result.metrics.final_soc
  /\ result.metrics.avg_power_generated < result.metrics.peak_power_generated
  /\ result.metrics.avg_power_consumed < result.metrics.peak_power_consumed

(***************************************************************************)
(* Recording of the state of charge                                        *)
(***************************************************************************)
\* the net power of step i as recorded
NetPower(i) == powerGenerated[i] - powerConsumed[i]

\* C24: battery_soc[0] is updateBatterySOC(0.80, net power of step 0), every
\* later battery_soc[i] is updateBatterySOC(battery_soc[i-1], net power of
\* step i), one value is recorded per step, and the running SOC is the last
\* value recorded (0.80 before the first step)
C24_SocRecording ==
  InsideRun =>
    /\ Len(batterySOC) = step
    /\ Len(batterySOC) = Len(powerGenerated) /\ Len(batterySOC) = Len(powerConsumed)
    /\ currentSOC = IF step = 0 THEN 80 * (SocScale \div 100) ELSE Last(batterySOC)
    /\ \A i \in 1..Len(batterySOC) :
         batterySOC[i] = updateBatterySOC(SocBefore(i), NetPower(i), config.batteryCapacity,
                                          config.battery.charge_efficiency,
                                          config.battery.discharge_efficiency, timeStep)

\* a run whose first recorded value already differs from 0.80 and whose
\* second differs from the first
C24_Witness ==
  /\ pc = "returned"
  /\ Len(batterySOC) > 2
  /\ config.batteryCapacity > 0
  /\ batterySOC[1] # 80 * (SocScale \div 100)
  /\ batterySOC[2] # batterySOC[1]
  /\ batterySOC[3] # batterySOC[2]

(***************************************************************************)
(* Direction of the state of charge                                        *)
(***************************************************************************)
\* C25: with capacity and efficiencies above 0, a step of surplus does not
\* lower the SOC, a step of deficit does not raise it, a step of net power 0
\* leaves it unchanged; a surplus at 0.95 leaves 0.95 and a deficit at 0.15
\* leaves 0.15
C25_SocFollowsNetPower ==
  (InsideRun /\ config.batteryCapacity > 0 /\ config.battery.charge_efficiency > 0
     /\ config.battery.discharge_efficiency > 0) =>
    \A i \in 1..Len(batterySOC) :
      /\ NetPower(i) > 0 => batterySOC[i] >= SocBefore(i)
      /\ NetPower(i) < 0 => batterySOC[i] <= SocBefore(i)
      /\ NetPower(i) = 0 => batterySOC[i] = SocBefore(i)
      /\ (SocBefore(i) = SocCeiling /\ NetPower(i) > 0) => batterySOC[i] = SocCeiling
      /\ (SocBefore(i) = SocFloor /\ NetPower(i) < 0) => batterySOC[i] = SocFloor

\* a run that holds 0.95 under surplus, then falls, then holds 0.15 under
\* deficit
C25_Witness ==
  /\ pc = "returned"
  /\ config.batteryCapacity > 0
  /\ \E i \in 1..Len(batterySOC) :
       SocBefore(i) = SocCeiling /\ NetPower(i) > 0 /\ batterySOC[i] = SocCeiling
  /\ \E i \in 1..Len(batterySOC) :
       NetPower(i) < 0 /\ batterySOC[i] < SocBefore(i) /\ batterySOC[i] > SocFloor
  /\ \E i \in 1..Len(batterySOC) :
       SocBefore(i) = SocFloor /\ NetPower(i) < 0 /\ batterySOC[i] = SocFloor

(***************************************************************************)
(* Periods of the series                                                   *)
(***************************************************************************)
\* the load of step i holds the communication term (base load above 0)
CommIncluded(i) ==
  powerConsumed[i] \in {2800 * config.baseLoad, 3300 * config.baseLoad}

LossFreePair ==
  /\ PairDiffersIn("concentrator")
  /\ \E r \in {First, Second} : r.config.concentrator = NULL
  /\ \E r \in {First, Second} :
        r.config.concentrator # NULL /\ r.config.concentrator.efficiency = Scale
  /\ First.config.concentratorArea = First.config.pvArea

\* C27: a run without concentrator and with pvArea = A generates, step by
\* step, the same power as the run that differs only in having a concentrator
\* of efficiency 1 with concentratorArea = A, when yearsInOperation = 0
C27_BranchesAgree ==
  (LossFreePair /\ First.config.yearsInOperation = 0) => SameGeneration

C27_Witness ==
  /\ LossFreePair
  /\ First.config.yearsInOperation = 0
  /\ First.config.pvArea > 0
  /\ SameGeneration
  /\ \E i \in Steps(First) : First.result.power_generated[i] > 0
  /\ \E i \in Steps(First) : First.result.power_generated[i] = 0

\* with years of operation the concentrator has lost efficiency and the two
\* branches no longer agree
C27_AgedBranchesDiffer ==
  /\ LossFreePair
  /\ First.config.yearsInOperation > 0
  /\ ~SameGeneration
(***************************************************************************)
(* Runs of zero steps                                                      *)
(***************************************************************************)
\* a call that passed the validation, of a duration below 0.1 h
ZeroStepRun ==
  /\ config # NoConfig
  /\ config.pvCell # NULL
  /\ config.battery # NULL
  /\ config.durationHours < 10

\* C28: a run whose duration is below 0.1 h (0 and negative durations
\* included) raises no error, takes no step and returns five empty series
\* with viable = false
C28_ZeroSteps ==
  ZeroStepRun =>
    /\ pc \in {"loop", "returned"}
    /\ thrown = NoError
    /\ numSteps <= 0
    /\ step = 0
    /\ time = << >> /\ powerGenerated = << >> /\ powerConsumed = << >>
    /\ batterySOC = << >> /\ temperature = << >>
    /\ pc = "returned" =>
         /\ result.time = << >>
         /\ result.power_generated = << >>
         /\ result.power_consumed = << >>
         /\ result.battery_soc = << >>
         /\ result.temperature = << >>
         /\ result.metrics.viable = FALSE

C28_Witness ==
  /\ ZeroStepRun
  /\ pc = "returned"
  /\ config.durationHours = 0
  /\ result.time = << >>
  /\ result.metrics.viable = FALSE
  /\ result.metrics.energy_balance = 0
  /\ result.metrics.min_soc = PosInf

\* the negative and the largest durations of zero steps are reached as well
C28_NegativeReached == ZeroStepRun /\ pc = "returned" /\ config.durationHours < 0 /\ numSteps < 0

C28_JustBelowReached == ZeroStepRun /\ pc = "returned" /\ config.durationHours = 9
C29_ReplacedReached ==
  /\ outcome = "succeeded"
  /\ Len(returned) > 1
  /\ results = returned[Len(returned)].result
  /\ results # returned[1].result

SelectionMatches == Find(pvCells, selectedPV) # NULL /\ Find(batteries, selectedBattery) # NULL

\* C30: runSimulation is called only when the selected PV-cell and battery
\* names both match a record, with these records and with the concentrator
\* record or null; otherwise error is 'Please select PV cell and battery' and
\* no call is made, so no error of runSimulation ever reaches the component
C30_LookupBeforeCall ==
  /\ [](thrown = NoError /\ pc # "threw")
  /\ [](error \in {NullMessage, "Please select PV cell and battery"})
  /\ [][runs' # runs =>
          /\ SelectionMatches
          /\ config'.pvCell = Find(pvCells, selectedPV)
          /\ config'.battery = Find(batteries, selectedBattery)
          /\ config'.concentrator =
               IF \E i \in 1..Len(concentrators) : concentrators[i].name = selectedConcentrator
               THEN Find(concentrators, selectedConcentrator)
               ELSE NULL]_vars
  /\ [][(outcome' = "failed" /\ changes' = changes) =>
          /\ ~SelectionMatches
          /\ error' = "Please select PV cell and battery"
          /\ runs' = runs]_vars
  /\ [][(~isRunning /\ isRunning') => (SelectionMatches /\ runs' = runs + 1)]_vars

\* a name that matches no concentrator went to runSimulation as null, and the
\* run succeeded on the direct branch
C30_Witness ==
  /\ outcome = "succeeded"
  /\ error = NullMessage
  /\ selectedConcentrator = "Unlisted concentrator"
  /\ Last(returned).config.concentrator = NULL
  /\ \E i \in 1..Len(results.power_generated) : results.power_generated[i] > 0

\* the lookup of the PV cell failed and no call was made
C30_NoCallReached ==
  /\ outcome = "failed"
  /\ error = "Please select PV cell and battery"
  /\ selectedPV = "triple-junction gaas (3j)"
  /\ runs = 0

\* the empty concentrator selection of the preset without concentrator
C30_EmptyReached ==
  /\ outcome = "succeeded"
  /\ selectedConcentrator = ""
  /\ Last(returned).config.concentrator = NULL
====
